---- MODULE Spec2Model ----
(***************************************************************************)
(* L-banner overlay: the banner lifecycle controller of main.js            *)
(* (setupBannerTiming) driving the render adapter of the analytics module  *)
(* (window.LBannerAnalytics: setBanner / show / hide / refresh).           *)
(*                                                                         *)
(* Everything runs on one event loop.  A step of the model is one handler  *)
(* run to completion: a video event listener, a timer callback, a click    *)
(* listener or a call of the public API.  Pending setTimeout callbacks are *)
(* kept in one queue ordered by deadline; wall-clock time passes in steps  *)
(* of Quantum milliseconds (action Tick).                                  *)
(*                                                                         *)
(* Not modelled: CSS classes of the host (lb-animating-in/out, lb-visible),*)
(* the cookie status panel and its timers, impression tracking and the     *)
(* console.  None of them is read by the code modelled here.  The          *)
(* lbanner_elements cookie is written by renders and clicks; it is followed *)
(* in SpecTracking, and the other specifications leave it out.             *)
(***************************************************************************)
EXTENDS Integers, Sequences, FiniteSets, TLC

(***************************************************************************)
(* Bounds of the exploration                                               *)
(***************************************************************************)
\* at most this many setTimeout callbacks pending at once
MaxTimers == 3
\* wall-clock milliseconds that pass in one Tick
Quantum == 200
\* at most this many ad-payload fetches are started
MaxFetches == 2
\* at most this many calls of initLBanner
MaxInits == 2
\* at most this many banners in a registry handed to findBannerForTime
MaxBanners == 3

\* the most Ad elements in one VAST document
MaxAds == 3
MaxWrites == 3

(***************************************************************************)
(* Program constants                                                       *)
(***************************************************************************)
SEEK_COOLDOWN == 600
PLAY_DELAY == 50
EXIT_ANIMATION == 1000
RESIZE_DELAY == 50
POLL_DELAY == 50
MAX_ATTEMPTS == 100
defaultVerticalWidth == 200
POSITIONS == {"left", "right", "top", "bottom"}

\* JavaScript null for a banner key / banner reference
NULL == "null"
\* JavaScript undefined / null for a numeric field
UNDEF == -99999
\* absent string field (segment.type, segment.position)
NONE == "none"

Max(a, b) == IF a >= b THEN a ELSE b

\* the number NaN: what parseInt returns for text that is no number
NaN == -88888

\* arithmetic on undefined or NaN gives NaN, a comparison with it is false
IsNaN(v) == v = NaN \/ v = UNDEF

\* Math.max(a, b)
MathMax(a, b) == IF IsNaN(a) \/ IsNaN(b) THEN NaN ELSE Max(a, b)

\* a > b
Gt(a, b) == ~IsNaN(a) /\ ~IsNaN(b) /\ a > b

\* a + b
Plus(a, b) == IF IsNaN(a) \/ IsNaN(b) THEN NaN ELSE a + b

(***************************************************************************)
(* Banner data as produced by the parser: configuration.timing,            *)
(* configuration.layout.segments, configuration.content.elements and       *)
(* configuration.behavior.display.showCloseButton.                         *)
(***************************************************************************)
Seg(id, x, y, w, h, type, pos) ==
    [id |-> id, x |-> x, y |-> y, width |-> w, height |-> h,
     type |-> type, position |-> pos]

El(id, segmentId) == [id |-> id, segmentId |-> segmentId]

\* vertical strip on the left edge plus horizontal strip along the bottom
LayoutLeftBottom ==
    << Seg("v", 0, 0, 300, 720, "vertical", "left"),
       Seg("h", 300, 620, 980, 100, "horizontal", "bottom") >>

\* vertical strip on the right edge plus horizontal strip along the top
LayoutRightTop ==
    << Seg("v", 1030, 0, 250, 720, "vertical", "right"),
       Seg("h", 0, 0, 1030, 90, "horizontal", "top") >>

\* hand-authored legacy layout: one relative segment
LayoutLegacyTop ==
    << Seg("t", UNDEF, UNDEF, UNDEF, 80, NONE, "top") >>

BannerRec(key, s, e, segs, els, close) ==
    [key |-> key, startOffset |-> s, endOffset |-> e,
     segments |-> segs, elements |-> els, showCloseButton |-> close]

\* the scenario registry: A on [5,10), B on [10,20)
RegistryAB ==
    << BannerRec("A", 5, 10, LayoutLeftBottom,
                 << El("e1", "v"), El("e2", "h") >>, TRUE),
       BannerRec("B", 10, 20, LayoutRightTop,
                 << El("e1", "v"), El("e2", "h") >>, TRUE) >>

\* a banner without timing first, then two overlapping windows
RegistryCAB ==
    << BannerRec("C", UNDEF, UNDEF, LayoutLegacyTop,
                 << El("e1", "t") >>, FALSE),
       BannerRec("A", 5, 15, LayoutLeftBottom,
                 << El("e1", "v"), El("e2", "h") >>, TRUE),
       BannerRec("B", 10, 20, LayoutRightTop,
                 << El("e1", "v"), El("e2", "h") >>, TRUE) >>

Registries == {RegistryAB, RegistryCAB}

\* what the ad endpoint can answer to fetchAndRender
AdPayloads ==
    << BannerRec("P", UNDEF, UNDEF, LayoutLegacyTop,
                 << El("e1", "t") >>, TRUE) >>

\* playback positions (seconds) the player reports
Times == {0, 7, 10, 15, 20, 25}

\* bounding rectangles of the player shell: <<width, height>>
ShellSizes == {<<1280, 720>>}

\* the bounding rectangle of the shell in fullscreen
FullscreenShell == <<1920, 1080>>

\* a horizontal strip without position hint at y = 500: below the middle of
\* the windowed shell, above the middle of the fullscreen shell
LayoutFloating ==
    << Seg("h", 0, 500, 1280, 100, "horizontal", NONE) >>

\* the registry of the resize exploration
RegistryResize ==
    << BannerRec("A", 5, 10, LayoutFloating, << El("e1", "h") >>, TRUE),
       BannerRec("B", 10, 20, LayoutRightTop,
                 << El("e1", "v"), El("e2", "h") >>, FALSE) >>

\* a vertical strip on the left edge wider than twice the default width
LayoutWide ==
    << Seg("v", 0, 0, 500, 720, "vertical", "left") >>

\* the registry of the teardown exploration
RegistryWide ==
    << BannerRec("A", 5, 10, LayoutWide, << El("e1", "v") >>, TRUE),
       BannerRec("B", 10, 20, LayoutRightTop,
                 << El("e1", "v"), El("e2", "h") >>, FALSE) >>

(***************************************************************************)
(* State                                                                   *)
(***************************************************************************)
VARIABLES
    \* main.js module state
    parsedBanners,       \* the registry, in Object.entries iteration order
    showBannersOnPause,  \* CONFIG.SHOW_BANNERS_ON_PAUSE
    \* the video element
    currentTime,         \* video.currentTime
    videoPaused,         \* video.paused
    videoSeeking,        \* video.seeking
    \* closure state of setupBannerTiming
    currentBannerKey,
    isPaused,
    isSeeking,
    pauseBannerActive,
    \* render adapter: state.currentBanner, children of state.bannerHost,
    \* custom properties of state.playerShell, state.closeButton, the
    \* .lb-close nodes in the shell, resize listeners, state.controller (the
    \* number of the fetch its signal governs, 0 for null), the fetches that
    \* can still deliver a response or an error, and the ghost fields lastRendered (key
    \* handed to the most recent renderBanner) and fetchCount (fetches
    \* started)
    adapter,
    \* pending setTimeout callbacks, ordered by deadline
    timers,
    shellSize,
    \* the page: window.ENABLE_ANALYTICS at load time, and which of the
    \* elements #player-shell, #l-banner-host, #video-area and #video-element
    \* the document has
    analyticsEnabled,
    dom,
    \* the cookie store of the analytics module: state.enableCookieTracking
    \* and the lbanner_elements cookie in document.cookie (per banner its
    \* interaction state, whether entries of the old per-segment format are
    \* present, and the ghost writes: assignments to document.cookie)
    enableCookieTracking,
    cookie,
    \* initLBanner: calls made, whether one is awaiting its VAST document,
    \* how the last one ended, and the ghosts analyticsInits (calls of
    \* LBannerAnalytics.init) and timingListeners (calls of
    \* setupBannerTiming, each registering one set of video listeners)
    boot,
    \* one call of a pure function: its name, its arguments, whether it has
    \* returned, and its result
    call

ctrlVars == <<currentBannerKey, isPaused, isSeeking, pauseBannerActive>>
videoVars == <<currentTime, videoPaused, videoSeeking>>
trackingVars == <<enableCookieTracking, cookie>>
configVars == <<parsedBanners, showBannersOnPause, shellSize,
                analyticsEnabled, trackingVars, dom, boot, call>>
vars == <<parsedBanners, showBannersOnPause, currentTime, videoPaused,
          videoSeeking, currentBannerKey, isPaused, isSeeking,
          pauseBannerActive, adapter, timers, shellSize,
          analyticsEnabled, dom, enableCookieTracking, cookie, boot, call>>

(***************************************************************************)
(* Registry lookups (main.js)                                              *)
(***************************************************************************)
Keys(reg) == {reg[i].key : i \in 1..Len(reg)}

\* the banner object a key stands for (a registry entry or an ad payload)
BannerOf(reg, key) ==
    LET all == reg \o AdPayloads
    IN all[CHOOSE i \in 1..Len(all) : all[i].key = key]

InWindow(b, t) ==
    /\ b.startOffset # UNDEF
    /\ b.endOffset # UNDEF
    /\ t >= b.startOffset
    /\ t < b.endOffset

\* first-match scan in iteration order with strict upper bound dropped
findBannerForTimeClosedEnd(reg, t) ==
    LET hits == {i \in 1..Len(reg) :
                    /\ reg[i].startOffset # UNDEF
                    /\ reg[i].endOffset # UNDEF
                    /\ t >= reg[i].startOffset
                    /\ t <= reg[i].endOffset}
    IN IF hits = {} THEN NULL
       ELSE reg[CHOOSE i \in hits : \A j \in hits : i <= j].key

\* key of the first banner whose window contains t, NULL when none does
findBannerForTime(reg, t) ==
    LET hits == {i \in 1..Len(reg) : InWindow(reg[i], t)}
    IN IF hits = {} THEN NULL
       ELSE reg[CHOOSE i \in hits : \A j \in hits : i <= j].key

\* getBannerData() without a key: the first registry entry
getBannerData(reg) == IF Len(reg) = 0 THEN NULL ELSE reg[1].key

(***************************************************************************)
(* Timer queue                                                             *)
(***************************************************************************)
Timer(kind, rem) == [kind |-> kind, rem |-> rem]

\* setTimeout: queue position is by deadline, then by registration order
Schedule(q, kind, delay) ==
    LET n == Cardinality({i \in 1..Len(q) : q[i].rem <= delay})
    IN SubSeq(q, 1, n) \o << Timer(kind, delay) >> \o SubSeq(q, n + 1, Len(q))

\* clearTimeout of the handle(s) of one kind
Cancel(q, kind) == SelectSeq(q, LAMBDA e : e.kind # kind)

Due(kind) ==
    /\ Len(timers) > 0
    /\ timers[1].kind = kind
    /\ timers[1].rem <= 0

Pending(kind) == \E i \in 1..Len(timers) : timers[i].kind = kind

(***************************************************************************)
(* Geometry: applyVideoOffsets                                             *)
(***************************************************************************)
ZeroOffsets == [left |-> 0, right |-> 0, top |-> 0, bottom |-> 0]

\* an edge test that trusts the position hint alone
isLeftEdgeHintOnly(segment) == segment.position = "left"

isLeftEdge(segment) == segment.position = "left" \/ segment.x = 0

\* a bottom test that trusts the position hint alone
isBottomSegmentHintOnly(segment, isHorizontal, shellHeight) ==
    segment.position = "bottom"

\* y > shellHeight * 0.5, in integers
isBottomSegment(segment, isHorizontal, shellHeight) ==
    \/ segment.position = "bottom"
    \/ (isHorizontal /\ ~IsNaN(segment.y) /\ 2 * segment.y > shellHeight)

\* a legacy branch that takes an unrecognised position for "left"
legacyOffsetsDefaultLeft(offsets, segment) ==
    IF segment.position \in {"top", "bottom"}
    THEN [offsets EXCEPT ![segment.position] = Max(@, segment.height)]
    ELSE IF segment.position = "right"
         THEN [offsets EXCEPT !.right = Max(@, segment.width)]
         ELSE [offsets EXCEPT !.left = Max(@, segment.width)]

\* legacy relative positioning: the branch taken without both x and y
legacyOffsets(offsets, segment) ==
    LET dimension == IF segment.position \in {"top", "bottom"}
                     THEN segment.height ELSE segment.width
    IN IF segment.position \notin POSITIONS
       THEN offsets
       ELSE [offsets EXCEPT ![segment.position] = MathMax(@, dimension)]

\* a contribution that classifies by shape whatever the declared type
segmentOffsetsByShape(offsets, segment, size) ==
    LET width == segment.width
        height == segment.height
        isVertical == segment.type = "vertical" \/ height > width
        isHorizontal == segment.type = "horizontal" \/ width > height
        afterVertical ==
            IF ~isVertical THEN offsets
            ELSE IF isLeftEdge(segment)
                 THEN [offsets EXCEPT !.left = Max(@, width)]
                 ELSE [offsets EXCEPT !.right = Max(@, width)]
        afterHorizontal ==
            IF ~isHorizontal THEN afterVertical
            ELSE IF isBottomSegment(segment, isHorizontal, size[2])
                 THEN [afterVertical EXCEPT !.bottom = Max(@, height)]
                 ELSE [afterVertical EXCEPT
                         !.top = Max(@, segment.y + height)]
        dimension == IF segment.position \in {"top", "bottom"}
                     THEN segment.height ELSE segment.width
    IN IF segment.x # UNDEF /\ segment.y # UNDEF
       THEN afterHorizontal
       ELSE IF segment.position \notin POSITIONS
            THEN offsets
            ELSE [offsets EXCEPT ![segment.position] = Max(@, dimension)]

\* the contribution of one segment to the running offsets
segmentOffsets(offsets, segment, size) ==
    LET shellWidth == size[1]
        shellHeight == size[2]
        x == segment.x
        y == segment.y
        width == segment.width
        height == segment.height
        segmentBottom == Plus(y, height)
        isVertical == \/ segment.type = "vertical"
                      \/ (segment.type # "horizontal" /\ Gt(height, width))
        isHorizontal == \/ segment.type = "horizontal"
                        \/ (segment.type # "vertical" /\ Gt(width, height))
        afterVertical ==
            IF ~isVertical THEN offsets
            ELSE IF isLeftEdge(segment)
                 THEN [offsets EXCEPT !.left = MathMax(@, width)]
                 ELSE [offsets EXCEPT !.right = MathMax(@, width)]
        afterHorizontal ==
            IF ~isHorizontal THEN afterVertical
            ELSE IF isBottomSegment(segment, isHorizontal, shellHeight)
                 THEN [afterVertical EXCEPT !.bottom = MathMax(@, height)]
                 ELSE [afterVertical EXCEPT !.top = MathMax(@, segmentBottom)]
    IN IF segment.x # UNDEF /\ segment.y # UNDEF
       THEN afterHorizontal
       ELSE legacyOffsets(offsets, segment)

RECURSIVE foldOffsets(_, _, _)
foldOffsets(offsets, segments, size) ==
    IF segments = << >> THEN offsets
    ELSE foldOffsets(segmentOffsets(offsets, Head(segments), size),
                     Tail(segments), size)

\* the offsets object computed by applyVideoOffsets
computeOffsets(segments, size) == foldOffsets(ZeroOffsets, segments, size)

\* the same contribution in the copy of the module kept beside the bundle:
\* the dimension ratio is consulted whatever segment.type says
segmentOffsetsPackaged(offsets, segment, size) ==
    LET shellHeight == size[2]
        x == segment.x
        y == segment.y
        width == segment.width
        height == segment.height
        segmentBottom == y + height
        isVertical == segment.type = "vertical" \/ height > width
        isHorizontal == segment.type = "horizontal" \/ width > height
        afterVertical ==
            IF ~isVertical THEN offsets
            ELSE IF isLeftEdge(segment)
                 THEN [offsets EXCEPT !.left = Max(@, width)]
                 ELSE [offsets EXCEPT !.right = Max(@, width)]
        afterHorizontal ==
            IF ~isHorizontal THEN afterVertical
            ELSE IF isBottomSegment(segment, isHorizontal, shellHeight)
                 THEN [afterVertical EXCEPT !.bottom = Max(@, height)]
                 ELSE [afterVertical EXCEPT !.top = Max(@, segmentBottom)]
        dimension == IF segment.position \in {"top", "bottom"}
                     THEN segment.height ELSE segment.width
    IN IF segment.x # UNDEF /\ segment.y # UNDEF
       THEN afterHorizontal
       ELSE IF segment.position \notin POSITIONS
            THEN offsets
            ELSE [offsets EXCEPT ![segment.position] = Max(@, dimension)]

RECURSIVE foldOffsetsPackaged(_, _, _)
foldOffsetsPackaged(offsets, segments, size) ==
    IF segments = << >> THEN offsets
    ELSE foldOffsetsPackaged(
             segmentOffsetsPackaged(offsets, Head(segments), size),
             Tail(segments), size)

\* the offsets object computed by the packaged copy of applyVideoOffsets
computeOffsetsPackaged(segments, size) ==
    foldOffsetsPackaged(ZeroOffsets, segments, size)

\* `${value}px`
Px(value) == IF IsNaN(value) THEN "NaNpx" ELSE ToString(value) \o "px"

\* applyVideoOffsets: the custom properties written to the player shell.
\* The offsets are computed once and then written.
applyVideoOffsets(props, segments, size) ==
    LET shellWidthAdjust(offsets) ==
            MathMax(0, Plus(Plus(offsets.left, -defaultVerticalWidth),
                            Plus(offsets.right, -defaultVerticalWidth)))
        written(offsets) ==
            [props EXCEPT !.left = Px(offsets.left),
                          !.right = Px(offsets.right),
                          !.top = Px(offsets.top),
                          !.bottom = Px(offsets.bottom),
                          !.adjust = Px(shellWidthAdjust(offsets))]
    IN CHOOSE p \in {written(offsets) :
                       offsets \in {computeOffsets(segments, size)}} : TRUE

(***************************************************************************)
(* Geometry: positionSegment                                               *)
(***************************************************************************)
\* originalY > 400
BOTTOM_Y == 400

positionSegmentIsVertical(segment) ==
    segment.type = "vertical" \/ segment.height > segment.width

positionSegmentIsHorizontal(segment) ==
    segment.type = "horizontal" \/ segment.width > segment.height

positionSegmentIsLeftEdge(segment) ==
    segment.x = 0 \/ segment.position = "left"

\* the same test in positionSegment and in applyVideoOffsets
isRightEdge(segment, leftEdge, shellWidth) ==
    \/ segment.position = "right"
    \/ (~leftEdge /\ segment.x + segment.width >= shellWidth - 1)

positionSegmentIsBottom(segment) ==
    \/ segment.position = "bottom"
    \/ (positionSegmentIsHorizontal(segment) /\ segment.y > BOTTOM_Y)

\* the edge of the shell positionSegment attaches the node to: "left",
\* "right", "top" or "bottom", "absolute" for a node placed at the
\* segment's own x and y, NONE for a node whose style is not set
positionSegment(segment, size) ==
    LET isLeft == positionSegmentIsLeftEdge(segment)
        isRight == isRightEdge(segment, isLeft, size[1])
        isVertical == positionSegmentIsVertical(segment)
        isHorizontal == positionSegmentIsHorizontal(segment)
    IN IF segment.x # UNDEF /\ segment.y # UNDEF
       THEN IF isVertical /\ isLeft THEN "left"
            ELSE IF isVertical /\ isRight THEN "right"
            ELSE IF isHorizontal /\ positionSegmentIsBottom(segment)
                 THEN "bottom"
            ELSE "absolute"
       ELSE IF segment.position \in POSITIONS THEN segment.position
            ELSE NONE

\* the shell width the style sheet gives the player, in px
referenceWidth == 1280

\* the rounding tolerance of the right-bottom branch, in px
LEFT_TOLERANCE == 10

\* Math.min(100, Math.max(0, (segment.x / referenceWidth) * 100)), kept
\* exact as the numerator of a fraction over referenceWidth
xPercent(segment) ==
    LET scaled == segment.x * 100
    IN IF scaled > 100 * referenceWidth THEN 100 * referenceWidth
       ELSE Max(0, scaled)

\* the style positionSegment did not set
NoStyle == [left |-> "", bottom |-> "", width |-> "", percent |-> 0]

\* a right-bottom branch that anchors only within the tolerance on both sides
alignsToVideoOffsetWithin(segment, leftOffset) ==
    /\ Gt(leftOffset, 0)
    /\ segment.x >= leftOffset - LEFT_TOLERANCE
    /\ segment.x <= leftOffset + LEFT_TOLERANCE

\* leftOffset > 0 && segment.x >= leftOffset - 10
alignsToVideoOffset(segment, leftOffset) ==
    Gt(leftOffset, 0) /\ segment.x >= leftOffset - LEFT_TOLERANCE

\* the left, bottom and width styles positionSegment gives the node of a
\* horizontal bottom segment; leftOffset is getCSSVar("--lb-left-width").
\* A percentage is the string "xPercent%" with its value in percent, as a
\* numerator over referenceWidth.
positionBottomSegment(segment, leftOffset) ==
    IF positionSegmentIsLeftEdge(segment)
    THEN [left |-> "0px", bottom |-> "0px", width |-> "100%", percent |-> 0]
    ELSE IF alignsToVideoOffset(segment, leftOffset)
    THEN [left |-> "var(--lb-left-width)", bottom |-> "0px",
          width |-> "calc(100% - var(--lb-left-width) - var(--lb-right-width))",
          percent |-> 0]
    ELSE [left |-> "xPercent%", bottom |-> "0px",
          width |-> "calc(100% - xPercent% - var(--lb-right-width))",
          percent |-> xPercent(segment)]

(***************************************************************************)
(* Render adapter.  Its operations take and return a record                *)
(* [a |-> adapter state, q |-> timer queue].                               *)
(***************************************************************************)
\* custom properties of the shell before anything was written
UnsetProps == [left |-> "", right |-> "", top |-> "", bottom |-> "",
               adjust |-> ""]

InitAdapter ==
    [currentBanner |-> NULL, host |-> << >>, props |-> UnsetProps,
     closeButton |-> FALSE, shellButtons |-> 0, listening |-> FALSE,
     controller |-> 0, fetches |-> << >>, lastRendered |-> NULL,
     fetchCount |-> 0]

\* a reset that forgets the vertical pair of properties
resetOffsetsHorizontalOnly(props) ==
    [props EXCEPT !.left = "0px", !.right = "0px"]

\* the four offset properties reset, --lb-shell-width-adjust left alone
resetOffsets(props) ==
    [props EXCEPT !.left = "0px", !.right = "0px",
                  !.top = "0px", !.bottom = "0px"]

\* a removal that forgets the button in the shell
removeCloseButtonReferenceOnly(a) == [a EXCEPT !.closeButton = FALSE]

\* state.closeButton.remove(); state.closeButton = null
removeCloseButton(a) ==
    IF a.closeButton
    THEN [a EXCEPT !.closeButton = FALSE, !.shellButtons = @ - 1]
    ELSE a

\* a teardown that leaves the children of the host in place
cleanupExistingKeepNodes(w, immediate) ==
    [w EXCEPT !.a = removeCloseButton(
                       [w.a EXCEPT !.listening = FALSE,
                                   !.props = resetOffsets(@)])]

cleanupExisting(w, immediate) ==
    LET a1 == [w.a EXCEPT !.listening = FALSE]
        animated == ~immediate /\ Len(a1.host) > 0
        a2 == IF animated THEN a1 ELSE [a1 EXCEPT !.host = << >>]
        q2 == IF animated THEN Schedule(w.q, "exit", EXIT_ANIMATION) ELSE w.q
        a3 == [a2 EXCEPT !.props = resetOffsets(@)]
    IN [a |-> removeCloseButton(a3), q |-> q2]

\* the 1000 ms callback of an animated cleanupExisting
exitCallback(a) == [a EXCEPT !.host = << >>]

\* an element loop without the test for a missing segment
segmentNodesUnchecked(key, elements, segmentIds) ==
    [i \in 1..Len(elements) |-> <<key, elements[i].id>>]

\* the nodes renderBanner appends: one per element whose segment exists
RECURSIVE segmentNodes(_, _, _)
segmentNodes(key, elements, segmentIds) ==
    IF elements = << >> THEN << >>
    ELSE (IF Head(elements).segmentId \in segmentIds
          THEN << <<key, Head(elements).id>> >> ELSE << >>)
         \o segmentNodes(key, Tail(elements), segmentIds)

\* attachCloseButton
attachCloseButton(a) ==
    [a EXCEPT !.closeButton = TRUE, !.shellButtons = @ + 1]

renderBanner(w, payload, size) ==
    LET w1 == cleanupExisting(w, TRUE)
        segmentIds == {payload.segments[i].id : i \in 1..Len(payload.segments)}
        a2 == [w1.a EXCEPT
                 !.props = applyVideoOffsets(@, payload.segments, size),
                 !.host = @ \o segmentNodes(payload.key, payload.elements,
                                            segmentIds),
                 !.lastRendered = payload.key]
        a3 == IF payload.showCloseButton THEN attachCloseButton(a2) ELSE a2
    IN [a |-> [a3 EXCEPT !.listening = TRUE], q |-> w1.q]

\* LBannerAnalytics.setBanner
setBanner(w, key) == [w EXCEPT !.a.currentBanner = key]

\* LBannerAnalytics.show
showBanner(w, reg, size) ==
    IF w.a.currentBanner # NULL
    THEN renderBanner(w, BannerOf(reg, w.a.currentBanner), size)
    ELSE w

\* LBannerAnalytics.hide
hideBanner(w) == cleanupExisting(w, FALSE)

(***************************************************************************)
(* window.LBannerAnalytics and the controller helpers that call it         *)
(* (closure functions of setupBannerTiming)                                *)
(***************************************************************************)
\* an object whose methods are the real ones whatever the flag says
LBannerAnalyticsAlwaysLoaded(w, result) == result

\* a method of window.LBannerAnalytics called in the world w: the module's
\* function, which leads to result, or with ENABLE_ANALYTICS false the stub
\* that returns at once
LBannerAnalytics(w, result) == IF analyticsEnabled THEN result ELSE w

\* callAnalytics(method, ...args)
callAnalytics(w, result) == LBannerAnalytics(w, result)

\* forceShowBanner: setBanner then show, nothing when bannerData is null
forceShowBanner(w, key, reg, size) ==
    IF key = NULL THEN w
    ELSE LET w1 == callAnalytics(w, setBanner(w, key))
         IN callAnalytics(w1, showBanner(w1, reg, size))

forceHideBanner(w) == callAnalytics(w, hideBanner(w))

World == [a |-> adapter, q |-> timers]

(***************************************************************************)
(* ElementCookieStore: the lbanner_elements cookie                         *)
(***************************************************************************)
\* banner ids an lbanner_elements cookie can mention
CookieIds == {"A", "D"}

\* no lbanner_elements cookie
NoCookie ==
    [entries |-> [id \in CookieIds |-> NONE], legacy |-> FALSE, writes |-> 0,
     lastShown |-> [id \in CookieIds |-> UNDEF],
     interactedAt |-> [id \in CookieIds |-> UNDEF]]

(***************************************************************************)
(* Initial state: initLBanner has filled the registry, LBannerAnalytics    *)
(* is initialised and setupBannerTiming has registered its listeners.      *)
(***************************************************************************)
\* the document of the README: every element is there
FullDom == [shell |-> TRUE, host |-> TRUE, videoArea |-> TRUE, video |-> TRUE]

\* one call of initLBanner has resolved
Booted ==
    [calls |-> 1, pending |-> FALSE, outcome |-> "resolved",
     analyticsInits |-> 1, timingListeners |-> 1]

\* no pure-function call is being looked at
NoCall ==
    [fn |-> "none", done |-> FALSE, reg |-> << >>, t |-> 0,
     segments |-> << >>, size |-> <<0, 0>>, key |-> NULL,
     offsets |-> ZeroOffsets, leftOffset |-> 0, style |-> NoStyle,
     doc |-> << >>, banners |-> << >>]

Init ==
    /\ call = NoCall
    /\ analyticsEnabled = TRUE
    /\ dom = FullDom
    /\ enableCookieTracking = TRUE
    /\ cookie = NoCookie
    /\ boot = Booted
    /\ parsedBanners \in Registries
    /\ showBannersOnPause \in BOOLEAN
    /\ shellSize \in ShellSizes
    /\ currentTime = 0
    /\ videoPaused \in BOOLEAN
    /\ videoSeeking = FALSE
    /\ currentBannerKey = NULL
    /\ isPaused = FALSE
    /\ isSeeking = FALSE
    /\ pauseBannerActive = FALSE
    /\ adapter = InitAdapter
    /\ timers = << >>

\* the adapter and the timer queue after a handler, within the timer bound
Commit(w) ==
    /\ Len(w.q) <= MaxTimers
    /\ adapter' = w.a
    /\ timers' = w.q

(***************************************************************************)
(* Video events and their listeners (setupBannerTiming)                    *)
(***************************************************************************)
\* a seeking listener that leaves a pending cooldown alone
SeekingKeepsCooldown(t) ==
    /\ currentTime' = t
    /\ videoSeeking' = TRUE
    /\ isSeeking' = TRUE
    /\ currentBannerKey' = NULL
    /\ Commit(IF currentBannerKey # NULL
              THEN forceHideBanner(World) ELSE World)
    /\ UNCHANGED <<videoPaused, isPaused, pauseBannerActive, configVars>>

\* "seeking": the playback position jumps to t
Seeking(t) ==
    /\ currentTime' = t
    /\ videoSeeking' = TRUE
    /\ isSeeking' = TRUE
    /\ currentBannerKey' = NULL
    /\ LET w1 == IF currentBannerKey # NULL
                 THEN forceHideBanner(World) ELSE World
       IN Commit([w1 EXCEPT !.q = Cancel(@, "seekCooldown")])
    /\ UNCHANGED <<videoPaused, isPaused, pauseBannerActive, configVars>>

\* "seeked": arms the cooldown
Seeked ==
    /\ videoSeeking
    /\ videoSeeking' = FALSE
    /\ Commit([World EXCEPT
                 !.q = Schedule(Cancel(@, "seekCooldown"),
                                "seekCooldown", SEEK_COOLDOWN)])
    /\ UNCHANGED <<currentTime, videoPaused, ctrlVars, configVars>>

\* a cooldown callback that re-evaluates but leaves isSeeking set
SeekCooldownFireStillSeeking ==
    /\ Due("seekCooldown")
    /\ LET w0 == [World EXCEPT !.q = Tail(@)]
           res == findBannerForTime(parsedBanners, currentTime)
       IN IF ~isPaused
          THEN /\ currentBannerKey' = res
               /\ Commit(forceShowBanner(w0, res, parsedBanners, shellSize))
          ELSE /\ currentBannerKey' = currentBannerKey
               /\ Commit(w0)
    /\ UNCHANGED <<videoVars, isPaused, isSeeking, pauseBannerActive,
                   configVars>>

\* the cooldown callback
SeekCooldownFire ==
    /\ Due("seekCooldown")
    /\ isSeeking' = FALSE
    /\ LET w0 == [World EXCEPT !.q = Tail(@)]
           res == findBannerForTime(parsedBanners, currentTime)
       IN IF ~isPaused
          THEN /\ currentBannerKey' = res
               /\ Commit(forceShowBanner(w0, res, parsedBanners, shellSize))
          ELSE /\ currentBannerKey' = currentBannerKey
               /\ Commit(w0)
    /\ UNCHANGED <<videoVars, isPaused, pauseBannerActive, configVars>>

\* a suppression test that forgets the seek
timeupdateIgnoredExceptSeeking == isPaused \/ pauseBannerActive

\* the first test of the timeupdate listener
timeupdateIgnored == isPaused \/ isSeeking \/ pauseBannerActive

\* a timeupdate listener that renders the banner of the window at every
\* tick
timeupdateAlwaysShow(w, t) ==
    LET res == findBannerForTime(parsedBanners, t)
    IN IF timeupdateIgnored
       THEN [key |-> currentBannerKey, w |-> w]
       ELSE IF res = NULL
            THEN [key |-> NULL,
                  w |-> IF currentBannerKey # NULL
                        THEN forceHideBanner(w) ELSE w]
            ELSE [key |-> res,
                  w |-> forceShowBanner(w, res, parsedBanners, shellSize)]

\* the timeupdate listener: new key and new adapter state at time t
timeupdate(w, t) ==
    LET res == findBannerForTime(parsedBanners, t)
    IN IF timeupdateIgnored
       THEN [key |-> currentBannerKey, w |-> w]
       ELSE IF res = NULL
            THEN [key |-> NULL,
                  w |-> IF currentBannerKey # NULL
                        THEN forceHideBanner(w) ELSE w]
            ELSE IF res # currentBannerKey
                 THEN [key |-> res,
                       w |-> forceShowBanner(w, res, parsedBanners, shellSize)]
                 ELSE [key |-> currentBannerKey, w |-> w]

\* a tick that renders the banner of its window again when it was hidden
TimeUpdateRerenders(t) ==
    /\ IF videoPaused \/ videoSeeking THEN t = currentTime ELSE t >= currentTime
    /\ currentTime' = t
    /\ LET res == findBannerForTime(parsedBanners, t)
           r == IF /\ ~timeupdateIgnored
                   /\ res # NULL
                   /\ res = currentBannerKey
                   /\ ~adapter.listening
                THEN [key |-> res,
                      w |-> forceShowBanner(World, res, parsedBanners,
                                            shellSize)]
                ELSE timeupdate(World, t)
       IN /\ currentBannerKey' = r.key
          /\ Commit(r.w)
    /\ UNCHANGED <<videoPaused, videoSeeking, isPaused, isSeeking,
                   pauseBannerActive, configVars>>

\* "timeupdate": playback has reached t (t stands still while the video is
\* paused or seeking)
TimeUpdate(t) ==
    /\ IF videoPaused \/ videoSeeking THEN t = currentTime ELSE t >= currentTime
    /\ currentTime' = t
    /\ LET r == timeupdate(World, t)
       IN /\ currentBannerKey' = r.key
          /\ Commit(r.w)
    /\ UNCHANGED <<videoPaused, videoSeeking, isPaused, isSeeking,
                   pauseBannerActive, configVars>>

\* a pause listener that applies the same-key skip of the tick rule
pauseSkipSameKey(w, t) ==
    LET timeBanner == findBannerForTime(parsedBanners, t)
        fallback == getBannerData(parsedBanners)
        bannerToShow == IF timeBanner # NULL THEN timeBanner ELSE fallback
    IN [key |-> IF bannerToShow # NULL THEN bannerToShow ELSE currentBannerKey,
        w |-> IF bannerToShow # currentBannerKey
              THEN forceShowBanner(w, bannerToShow, parsedBanners, shellSize)
              ELSE w]

\* the pause listener: new key and new adapter state
pause(w, t) ==
    LET timeBanner == findBannerForTime(parsedBanners, t)
        fallback == getBannerData(parsedBanners)
        bannerToShow == IF timeBanner # NULL THEN timeBanner ELSE fallback
    IN [key |-> IF bannerToShow # NULL THEN bannerToShow ELSE currentBannerKey,
        w |-> forceShowBanner(w, bannerToShow, parsedBanners, shellSize)]

\* pause and play listeners registered whatever the configuration says
pauseListenersAlways == TRUE

\* the listeners for pause and play exist only with SHOW_BANNERS_ON_PAUSE
pauseListenersRegistered == showBannersOnPause

\* "pause"
Pause ==
    /\ ~videoPaused
    /\ videoPaused' = TRUE
    /\ IF pauseListenersRegistered
       THEN /\ isPaused' = TRUE
            /\ pauseBannerActive' = TRUE
            /\ LET r == pause(World, currentTime)
               IN /\ currentBannerKey' = r.key
                  /\ Commit(r.w)
       ELSE UNCHANGED <<isPaused, pauseBannerActive, currentBannerKey,
                        adapter, timers>>
    /\ UNCHANGED <<currentTime, videoSeeking, isSeeking, configVars>>

\* "play": arms the resume delay
Play ==
    /\ videoPaused
    /\ videoPaused' = FALSE
    /\ IF pauseListenersRegistered
       THEN /\ isPaused' = FALSE
            /\ pauseBannerActive' = FALSE
            /\ Commit([World EXCEPT !.q = Schedule(@, "play", PLAY_DELAY)])
       ELSE UNCHANGED <<isPaused, pauseBannerActive, adapter, timers>>
    /\ UNCHANGED <<currentTime, videoSeeking, currentBannerKey, isSeeking,
                   configVars>>

\* the resume callback: new key and new adapter state
playResume(w) ==
    LET res == findBannerForTime(parsedBanners, currentTime)
    IN IF ~isPaused /\ ~isSeeking
       THEN IF res # NULL
            THEN [key |-> res,
                  w |-> forceShowBanner(w, res, parsedBanners, shellSize)]
            ELSE [key |-> NULL, w |-> forceHideBanner(w)]
       ELSE [key |-> currentBannerKey, w |-> w]

PlayResumeFire ==
    /\ Due("play")
    /\ LET r == playResume([World EXCEPT !.q = Tail(@)])
       IN /\ currentBannerKey' = r.key
          /\ Commit(r.w)
    /\ UNCHANGED <<videoVars, isPaused, isSeeking, pauseBannerActive,
                   configVars>>

(***************************************************************************)
(* Render adapter callbacks                                                *)
(***************************************************************************)
\* the exit-animation callback of an animated hide
ExitAnimationFire ==
    /\ Due("exit")
    /\ adapter' = exitCallback(adapter)
    /\ timers' = Tail(timers)
    /\ UNCHANGED <<videoVars, ctrlVars, configVars>>

\* click on the close button: hideBanner
CloseClick ==
    /\ adapter.closeButton
    /\ Commit(hideBanner(World))
    /\ UNCHANGED <<videoVars, ctrlVars, configVars>>

\* wall-clock time passes; no timer is overdue
Tick ==
    /\ Len(timers) > 0
    /\ timers[1].rem > 0
    /\ timers' = [i \in 1..Len(timers) |->
                    [timers[i] EXCEPT !.rem = @ - Quantum]]
    /\ UNCHANGED <<videoVars, ctrlVars, adapter, configVars>>

Next ==
    \/ \E t \in Times : Seeking(t)
    \/ Seeked
    \/ SeekCooldownFire
    \/ \E t \in Times : TimeUpdate(t)
    \/ Pause
    \/ Play
    \/ PlayResumeFire
    \/ ExitAnimationFire
    \/ CloseClick
    \/ Tick

Spec == Init /\ [][Next]_vars

\* The event loop runs every timer callback whose delay has elapsed, and
\* wall-clock time does not stop: the controller with its timers scheduled
\* fairly.  The page is the scenario page, loaded with the video playing.
InitSeekLive ==
    /\ Init
    /\ parsedBanners = RegistryAB
    /\ ~videoPaused

\* positions inside A's window, inside B's window and past both
SeekTimes == {7, 15, 25}

NextSeekLive ==
    \/ \E t \in SeekTimes : Seeking(t)
    \/ Seeked
    \/ SeekCooldownFire
    \/ \E t \in SeekTimes : TimeUpdate(t)
    \/ Pause
    \/ Play
    \/ PlayResumeFire
    \/ ExitAnimationFire
    \/ CloseClick
    \/ Tick

SpecSeekLive ==
    /\ InitSeekLive
    /\ [][NextSeekLive]_vars
    /\ WF_vars(Tick)
    /\ WF_vars(SeekCooldownFire)
    /\ WF_vars(PlayResumeFire)
    /\ WF_vars(ExitAnimationFire)

(***************************************************************************)
(* Public API of the render adapter, called by page scripts                *)
(***************************************************************************)
\* a fetch in flight; its ghosts: the children of the host and
\* state.currentBanner when fetchAndRender was called, and the number of the
\* fetch that call aborted (0 for none)
Fetch(id, hostBefore, bannerBefore, superseded) ==
    [id |-> id, hostBefore |-> hostBefore, bannerBefore |-> bannerBefore,
     superseded |-> superseded]

\* the fetch in flight that state.controller governs, 0 when there is none
governed(a) ==
    IF \E i \in 1..Len(a.fetches) : a.fetches[i].id = a.controller
    THEN a.controller ELSE 0

\* state.controller?.abort(): the governed fetch rejects with an AbortError,
\* which the catch block of fetchAndRender passes over in silence
abortController(a) ==
    [a EXCEPT !.fetches = SelectSeq(@, LAMBDA f : f.id # a.controller)]

\* fetchAndRender up to its first await
fetchAndRender(w) ==
    LET w1 == cleanupExisting(w, TRUE)
        a2 == abortController(w1.a)
        id == a2.fetchCount + 1
    IN [w1 EXCEPT !.a = [a2 EXCEPT
                           !.controller = id,
                           !.fetchCount = id,
                           !.fetches = @ \o << Fetch(id, w.a.host,
                                                     w.a.currentBanner,
                                                     governed(w.a)) >>]]

\* destroy
destroy(w) ==
    LET w1 == hideBanner(w)
    IN [w1 EXCEPT !.a = [abortController([w1.a EXCEPT !.currentBanner = NULL])
                           EXCEPT !.controller = 0]]

\* LBannerAnalytics.refresh
refresh(w, reg, size) ==
    IF w.a.currentBanner # NULL
    THEN renderBanner(w, BannerOf(reg, w.a.currentBanner), size)
    ELSE fetchAndRender(w)

ApiSetBanner(key) ==
    /\ Commit(LBannerAnalytics(World, setBanner(World, key)))
    /\ UNCHANGED <<videoVars, ctrlVars, configVars>>

ApiShow ==
    /\ Commit(LBannerAnalytics(World,
                               showBanner(World, parsedBanners, shellSize)))
    /\ UNCHANGED <<videoVars, ctrlVars, configVars>>

ApiHide ==
    /\ Commit(LBannerAnalytics(World, hideBanner(World)))
    /\ UNCHANGED <<videoVars, ctrlVars, configVars>>

ApiRefresh ==
    /\ adapter.currentBanner # NULL \/ adapter.fetchCount < MaxFetches
    /\ Commit(LBannerAnalytics(World,
                               refresh(World, parsedBanners, shellSize)))
    /\ UNCHANGED <<videoVars, ctrlVars, configVars>>

ApiDestroy ==
    /\ Commit(LBannerAnalytics(World, destroy(World)))
    /\ UNCHANGED <<videoVars, ctrlVars, configVars>>

\* fetch id has settled
settle(a, id) ==
    [a EXCEPT !.fetches = SelectSeq(@, LAMBDA f : f.id # id)]

\* the ad endpoint answers fetch i with a payload: the continuation of
\* fetchAndRender after its awaits
FetchResolve(i, key) ==
    /\ i \in 1..Len(adapter.fetches)
    /\ Commit(renderBanner(
                [World EXCEPT !.a = [settle(adapter, adapter.fetches[i].id)
                                       EXCEPT !.currentBanner = key]],
                BannerOf(parsedBanners, key), shellSize))
    /\ UNCHANGED <<videoVars, ctrlVars, configVars>>

\* fetch i fails (network error, non-OK status, unparsable body): the catch
\* block logs the error to the console
FetchFail(i) ==
    /\ i \in 1..Len(adapter.fetches)
    /\ adapter' = settle(adapter, adapter.fetches[i].id)
    /\ UNCHANGED <<videoVars, ctrlVars, configVars, timers>>

ApiNext ==
    \/ \E key \in Keys(parsedBanners) \cup {NULL} : ApiSetBanner(key)
    \/ ApiShow
    \/ ApiHide
    \/ ApiRefresh
    \/ ApiDestroy
    \/ \E i \in 1..MaxFetches, key \in Keys(AdPayloads) : FetchResolve(i, key)
    \/ \E i \in 1..MaxFetches : FetchFail(i)

\* a page script driving the adapter directly, with the adapter's own
\* callbacks and the passage of time
NextApi ==
    \/ ApiNext
    \/ ExitAnimationFire
    \/ CloseClick
    \/ Tick

\* the page in the default configuration, the video playing
InitApi ==
    /\ Init
    /\ ~showBannersOnPause
    /\ ~videoPaused

SpecApi == InitApi /\ [][NextApi]_vars

(***************************************************************************)
(* The page that sets window.ENABLE_ANALYTICS = false before the bundle     *)
(* loads: the video events and the calls of the stub API.  The adapter's    *)
(* own callbacks need a render or a hide of the module to be armed.         *)
(***************************************************************************)
InitDisabled ==
    /\ call = NoCall
    /\ analyticsEnabled = FALSE
    /\ dom = FullDom
    /\ enableCookieTracking = TRUE
    /\ cookie = NoCookie
    /\ boot = Booted
    /\ parsedBanners \in Registries
    /\ showBannersOnPause \in BOOLEAN
    /\ shellSize \in ShellSizes
    /\ currentTime = 0
    /\ videoPaused \in BOOLEAN
    /\ videoSeeking = FALSE
    /\ currentBannerKey = NULL
    /\ isPaused = FALSE
    /\ isSeeking = FALSE
    /\ pauseBannerActive = FALSE
    /\ adapter = InitAdapter
    /\ timers = << >>

NextDisabled ==
    \/ \E t \in Times : Seeking(t)
    \/ Seeked
    \/ SeekCooldownFire
    \/ \E t \in Times : TimeUpdate(t)
    \/ Pause
    \/ Play
    \/ PlayResumeFire
    \/ Tick
    \/ \E key \in Keys(parsedBanners) \cup {NULL} : ApiSetBanner(key)
    \/ ApiShow
    \/ ApiHide
    \/ ApiRefresh
    \/ ApiDestroy

SpecDisabled == InitDisabled /\ [][NextDisabled]_vars

(***************************************************************************)
(* Resize and fullscreen changes (handleResize).  The placement styles of  *)
(* the segment nodes, rewritten by positionSegment, are not part of the    *)
(* adapter record.                                                         *)
(***************************************************************************)
\* handleResize: arms the 50 ms callback when a banner is stored
handleResize(w) ==
    IF w.a.currentBanner # NULL
    THEN [w EXCEPT !.q = Schedule(@, "resize", RESIZE_DELAY)]
    ELSE w

\* a callback that renders the stored banner anew
resizeCallbackRerender(w, reg, size) == showBanner(w, reg, size)

\* const { configuration } = state.currentBanner is a TypeError when
\* state.currentBanner is null by the time the callback runs
resizeCallbackThrows(w) == w.a.currentBanner = NULL

\* the 50 ms callback: with no banner stored the destructuring of
\* state.currentBanner throws and nothing is written
resizeCallback(w, reg, size) ==
    IF resizeCallbackThrows(w) THEN w
    ELSE [w EXCEPT !.a.props =
            applyVideoOffsets(@, BannerOf(reg, w.a.currentBanner).segments,
                              size)]

\* the window is resized or fullscreen is entered or left: the shell gets
\* the bounding rectangle size, and the listeners run if they are attached
Resize(size) ==
    /\ shellSize' = size
    /\ Commit(IF adapter.listening THEN handleResize(World) ELSE World)
    /\ UNCHANGED <<parsedBanners, showBannersOnPause, analyticsEnabled, dom,
                   trackingVars, boot, call, videoVars, ctrlVars>>

ResizeFire ==
    /\ Due("resize")
    /\ Commit(resizeCallback([World EXCEPT !.q = Tail(@)], parsedBanners,
                             shellSize))
    /\ UNCHANGED <<videoVars, ctrlVars, configVars>>

InitResize ==
    /\ call = NoCall
    /\ analyticsEnabled = TRUE
    /\ dom = FullDom
    /\ enableCookieTracking = TRUE
    /\ cookie = NoCookie
    /\ boot = Booted
    /\ parsedBanners = RegistryResize
    /\ showBannersOnPause = FALSE
    /\ shellSize \in ShellSizes
    /\ currentTime = 0
    /\ videoPaused = FALSE
    /\ videoSeeking = FALSE
    /\ currentBannerKey = NULL
    /\ isPaused = FALSE
    /\ isSeeking = FALSE
    /\ pauseBannerActive = FALSE
    /\ adapter = InitAdapter
    /\ timers = << >>

NextResize ==
    \/ \E key \in Keys(parsedBanners) \cup {NULL} : ApiSetBanner(key)
    \/ ApiShow
    \/ ApiHide
    \/ ApiDestroy
    \/ \E size \in ShellSizes \cup {FullscreenShell} : Resize(size)
    \/ ResizeFire
    \/ ExitAnimationFire
    \/ CloseClick
    \/ Tick

SpecResize == InitResize /\ [][NextResize]_vars

\* the same calls and events over a registry with a wide banner
InitTeardown ==
    /\ call = NoCall
    /\ analyticsEnabled = TRUE
    /\ dom = FullDom
    /\ enableCookieTracking = TRUE
    /\ cookie = NoCookie
    /\ boot = Booted
    /\ parsedBanners = RegistryWide
    /\ showBannersOnPause = FALSE
    /\ shellSize \in ShellSizes
    /\ currentTime = 0
    /\ videoPaused = FALSE
    /\ videoSeeking = FALSE
    /\ currentBannerKey = NULL
    /\ isPaused = FALSE
    /\ isSeeking = FALSE
    /\ pauseBannerActive = FALSE
    /\ adapter = InitAdapter
    /\ timers = << >>

SpecTeardown == InitTeardown /\ [][NextResize]_vars

(***************************************************************************)
(* Cookie tracking: renders through the public API, clicks on the buttons  *)
(* and poll options of the rendered nodes, and the lbanner_elements cookie *)
(* they write.  The cookie status panel only reads the cookie, and only    *)
(* with tracking enabled; it is left out.                                  *)
(***************************************************************************)
\* a content element with its type
TypedEl(id, segmentId, type) ==
    [id |-> id, segmentId |-> segmentId, type |-> type]

\* A: an image and a button.  D: a poll, a button whose segment id "x" is
\* not in the layout, and an image.
RegistryTracking ==
    << BannerRec("A", UNDEF, UNDEF, LayoutLeftBottom,
                 << TypedEl("e1", "v", "image"),
                    TypedEl("e2", "h", "button") >>, TRUE),
       BannerRec("D", UNDEF, UNDEF, LayoutRightTop,
                 << TypedEl("e1", "v", "poll"),
                    TypedEl("e2", "x", "button"),
                    TypedEl("e3", "h", "image") >>, FALSE) >>

\* cookies left by an earlier visit: none, one in the old per-segment
\* format, one that has banner A clicked
StoredCookies ==
    { NoCookie,
      [NoCookie EXCEPT !.legacy = TRUE],
      [NoCookie EXCEPT !.entries["A"] = "clicked", !.lastShown["A"] = 0,
                       !.interactedAt["A"] = 0] }

\* ElementCookieStore.write
cookieWrite(c, entries) ==
    [c EXCEPT !.entries = entries, !.legacy = FALSE, !.writes = @ + 1]

\* Date.now(): the time of an earlier visit is 0, and the clock has moved
\* on by every write of this visit
DateNow(c) == c.writes + 1

\* ElementCookieStore.read: entries of the old format are dropped and the
\* cleaned cookie is written back
cookieRead(c) == IF c.legacy THEN cookieWrite(c, c.entries) ELSE c

\* recordBannerShown without the test of state.enableCookieTracking
recordBannerShownUntracked(c, bannerId) ==
    LET c1 == cookieRead(c)
    IN cookieWrite([c1 EXCEPT !.lastShown[bannerId] = DateNow(c1)],
                   [c1.entries EXCEPT
                      ![bannerId] = IF @ = NONE THEN "notclicked" ELSE @])

\* ElementCookieStore.recordBannerShown
recordBannerShown(c, bannerId) ==
    IF ~enableCookieTracking THEN c
    ELSE LET c1 == cookieRead(c)
         IN cookieWrite([c1 EXCEPT !.lastShown[bannerId] = DateNow(c1)],
                        [c1.entries EXCEPT
                           ![bannerId] = IF @ = NONE THEN "notclicked"
                                         ELSE @])

\* a markBannerInteracted that stamps interactedAt on every call
markBannerInteractedRestamp(c, bannerId) ==
    IF ~enableCookieTracking THEN c
    ELSE LET c1 == cookieRead(c)
         IN cookieWrite([c1 EXCEPT !.lastShown[bannerId] = DateNow(c1),
                                   !.interactedAt[bannerId] = DateNow(c1)],
                        [c1.entries EXCEPT ![bannerId] = "clicked"])

\* ElementCookieStore.markBannerInteracted
markBannerInteracted(c, bannerId) ==
    IF ~enableCookieTracking THEN c
    ELSE LET c1 == cookieRead(c)
             wasInteracted == c1.entries[bannerId] = "clicked"
         IN cookieWrite([c1 EXCEPT
                           !.lastShown[bannerId] = DateNow(c1),
                           !.interactedAt[bannerId] =
                               IF wasInteracted THEN @ ELSE DateNow(c1)],
                        [c1.entries EXCEPT ![bannerId] = "clicked"])

\* ElementCookieStore.markClicked: marks state.currentBanner, whichever
\* element was clicked
markClicked(c, a) ==
    IF a.currentBanner # NULL THEN markBannerInteracted(c, a.currentBanner)
    ELSE c

\* the cookie after renderBanner(payload)
renderBannerCookie(c, payload) == recordBannerShown(c, payload.key)

\* the type of the content element a node of the host was built from
NodeType(reg, node) ==
    LET els == BannerOf(reg, node[1]).elements
        i == CHOOSE n \in 1..Len(els) : els[n].id = node[2]
    IN els[i].type

\* LBannerAnalytics.show(): showBanner -> renderBanner, cookie included
TrackedShow ==
    /\ Commit(showBanner(World, parsedBanners, shellSize))
    /\ cookie' = IF adapter.currentBanner # NULL
                 THEN renderBannerCookie(
                          cookie, BannerOf(parsedBanners,
                                           adapter.currentBanner))
                 ELSE cookie
    /\ cookie'.writes <= MaxWrites
    /\ UNCHANGED <<videoVars, ctrlVars, parsedBanners, showBannersOnPause,
                   shellSize, analyticsEnabled, dom, enableCookieTracking,
                   boot, call>>

\* click on the button of a rendered element (buildButton,
\* buildVSATButton)
ButtonClick ==
    /\ \E i \in 1..Len(adapter.host) :
          NodeType(parsedBanners, adapter.host[i]) = "button"
    /\ cookie' = markClicked(cookie, adapter)
    /\ cookie'.writes <= MaxWrites
    /\ UNCHANGED <<videoVars, ctrlVars, adapter, timers, parsedBanners,
                   showBannersOnPause, shellSize, analyticsEnabled, dom,
                   enableCookieTracking, boot, call>>

\* click on an option of a rendered poll (buildPoll)
PollVote ==
    /\ \E i \in 1..Len(adapter.host) :
          NodeType(parsedBanners, adapter.host[i]) = "poll"
    /\ cookie' = markClicked(cookie, adapter)
    /\ cookie'.writes <= MaxWrites
    /\ UNCHANGED <<videoVars, ctrlVars, adapter, timers, parsedBanners,
                   showBannersOnPause, shellSize, analyticsEnabled, dom,
                   enableCookieTracking, boot, call>>

InitTracking ==
    /\ call = NoCall
    /\ analyticsEnabled = TRUE
    /\ dom = FullDom
    /\ enableCookieTracking \in BOOLEAN
    /\ cookie \in StoredCookies
    /\ boot = Booted
    /\ parsedBanners = RegistryTracking
    /\ showBannersOnPause = FALSE
    /\ shellSize \in ShellSizes
    /\ currentTime = 0
    /\ videoPaused = FALSE
    /\ videoSeeking = FALSE
    /\ currentBannerKey = NULL
    /\ isPaused = FALSE
    /\ isSeeking = FALSE
    /\ pauseBannerActive = FALSE
    /\ adapter = InitAdapter
    /\ timers = << >>

NextTracking ==
    \/ \E key \in Keys(parsedBanners) \cup {NULL} : ApiSetBanner(key)
    \/ TrackedShow
    \/ ButtonClick
    \/ PollVote
    \/ ApiHide
    \/ ApiDestroy
    \/ ExitAnimationFire
    \/ CloseClick
    \/ Tick

SpecTracking == InitTracking /\ [][NextTracking]_vars

(***************************************************************************)
(* Initialisation: initLBanner (main.js) and LBannerAnalytics.init          *)
(***************************************************************************)
\* the options object: whether key and url are given, and showBannersOnPause
InitOptions ==
    {o \in [key : BOOLEAN, url : BOOLEAN,
            pauseGiven : BOOLEAN, pauseValue : BOOLEAN] :
        ~o.pauseGiven => ~o.pauseValue}

\* what fetchAndParseVAST can resolve to; the empty registry stands for a
\* document without a usable Ad, a missing parser and a failed fetch
VastResults == {<< >>, RegistryAB, RegistryCAB}

\* initShaka: not called (no video URL resolved), returns, or throws
ShakaOutcomes == {"none", "ok", "throws"}

DomSets == [shell : BOOLEAN, host : BOOLEAN, videoArea : BOOLEAN,
            video : BOOLEAN]

\* one property of Object.assign: an existing key keeps its place
assign(reg, b) ==
    IF b.key \in Keys(reg)
    THEN [i \in 1..Len(reg) |-> IF reg[i].key = b.key THEN b ELSE reg[i]]
    ELSE Append(reg, b)

\* Object.assign(parsedBanners, banners)
RECURSIVE ObjectAssign(_, _)
ObjectAssign(reg, banners) ==
    IF banners = << >> THEN reg
    ELSE ObjectAssign(assign(reg, Head(banners)), Tail(banners))

\* an init that asserts the player shell only
analyticsInitOkShellOnly(d) == d.shell

\* the three assertions of LBannerAnalytics.init
analyticsInitOk(d) == d.shell /\ d.host /\ d.videoArea

\* initLBanner from the merge of the banners to its return
afterVast(b, merged, shaka) ==
    LET b0 == [b EXCEPT !.pending = FALSE]
        b1 == [b0 EXCEPT !.analyticsInits = @ + 1]
    IN IF Len(merged) = 0 THEN [b0 EXCEPT !.outcome = "rejected"]
       ELSE IF shaka = "throws" THEN [b0 EXCEPT !.outcome = "rejected"]
       ELSE IF analyticsEnabled /\ ~analyticsInitOk(dom)
            THEN [b1 EXCEPT !.outcome = "rejected"]
            ELSE [b1 EXCEPT !.outcome = "resolved",
                            !.timingListeners = IF dom.video THEN @ + 1
                                                ELSE @]

\* the page before any call of initLBanner
InitBoot ==
    /\ call = NoCall
    /\ analyticsEnabled \in BOOLEAN
    /\ dom \in DomSets
    /\ enableCookieTracking = TRUE
    /\ cookie = NoCookie
    /\ boot = [calls |-> 0, pending |-> FALSE, outcome |-> "none",
               analyticsInits |-> 0, timingListeners |-> 0]
    /\ parsedBanners = << >>
    /\ showBannersOnPause = FALSE
    /\ shellSize \in ShellSizes
    /\ currentTime = 0
    /\ videoPaused = TRUE
    /\ videoSeeking = FALSE
    /\ currentBannerKey = NULL
    /\ isPaused = FALSE
    /\ isSeeking = FALSE
    /\ pauseBannerActive = FALSE
    /\ adapter = InitAdapter
    /\ timers = << >>

\* initLBanner(options) up to its first await
InitLBannerCall(options) ==
    /\ ~boot.pending
    /\ boot.calls < MaxInits
    /\ IF ~options.key \/ ~options.url
       THEN /\ boot' = [boot EXCEPT !.calls = @ + 1, !.outcome = "rejected"]
            /\ UNCHANGED showBannersOnPause
       ELSE /\ boot' = [boot EXCEPT !.calls = @ + 1, !.pending = TRUE,
                                    !.outcome = "pending"]
            /\ showBannersOnPause' = IF options.pauseGiven
                                     THEN options.pauseValue
                                     ELSE showBannersOnPause
    /\ UNCHANGED <<parsedBanners, shellSize, analyticsEnabled, dom, call,
                   trackingVars, videoVars, ctrlVars, adapter, timers>>

\* fetchAndParseVAST has resolved to banners: the rest of initLBanner
InitLBannerResume(banners, shaka) ==
    /\ boot.pending
    /\ parsedBanners' = ObjectAssign(parsedBanners, banners)
    /\ boot' = afterVast(boot, parsedBanners', shaka)
    /\ UNCHANGED <<showBannersOnPause, shellSize, analyticsEnabled, dom,
                   call, trackingVars, videoVars, ctrlVars, adapter, timers>>

NextBoot ==
    \/ \E options \in InitOptions : InitLBannerCall(options)
    \/ \E banners \in VastResults, shaka \in ShakaOutcomes :
         InitLBannerResume(banners, shaka)

SpecBoot == InitBoot /\ [][NextBoot]_vars

(***************************************************************************)
(* The pure functions findBannerForTime and applyVideoOffsets, called on    *)
(* arguments drawn from small sets                                          *)
(***************************************************************************)
\* timing.startOffset and timing.endOffset of a test banner
TimingChoices ==
    {<<UNDEF, UNDEF>>, <<5, UNDEF>>, <<UNDEF, 10>>, <<5, 10>>, <<5, 15>>,
     <<10, 20>>, <<15, 5>>}

KeyNames == <<"A", "B", "C", "D", "E">>

TestRegistries ==
    UNION {{[i \in 1..n |-> BannerRec(KeyNames[i], tm[i][1], tm[i][2],
                                      LayoutLegacyTop, << >>, FALSE)] :
              tm \in [1..n -> TimingChoices]} : n \in 0..MaxBanners}

TestTimes == {0, 5, 7, 10, 12, 15, 20}

\* a legacy top strip with a vertical-typed absolute segment wider than tall
LayoutMixed ==
    << Seg("t", UNDEF, UNDEF, UNDEF, 80, NONE, "top"),
       Seg("v", 0, 0, 300, 100, "vertical", NONE) >>

TestSegments ==
    {Seg("s", x, y, w, h, type, pos) :
        x \in {0, 640, 980, 1080, 1180, 1280},
        y \in {0, 350, 351, 600},
        w \in {0, 100, 200, 300, 1280},
        h \in {0, 80, 100, 720},
        type \in {"vertical", "horizontal", NONE},
        pos \in POSITIONS \cup {NONE}}

TestLayouts ==
    {<< s >> : s \in TestSegments}
      \cup {<< >>, LayoutMixed, LayoutLeftBottom, LayoutRightTop,
            LayoutLegacyTop}

\* the position parseSegment derives from the coordinates
parseSegmentPosition(type, x, y) ==
    IF type = "horizontal"
    THEN (IF Gt(y, 500) THEN "bottom" ELSE "top")
    ELSE (IF ~IsNaN(x) /\ x < 200 THEN "left" ELSE "right")

\* segments as parseSegment returns them from Width, Height, X and Y
\* elements with negative or non-numeric text
OddSegments ==
    {Seg("segment_" \o type, x, y, w, h, type, parseSegmentPosition(type, x, y)) :
        x \in {0, -50, 1180, NaN},
        y \in {0, -50, 600, NaN},
        w \in {-100, 0, 300, NaN},
        h \in {-80, 100, NaN},
        type \in {"vertical", "horizontal"}}

\* segments with neither both coordinates nor a recognised position
StraySegments ==
    { Seg("z", UNDEF, UNDEF, 500, 500, NONE, NONE),
      Seg("z", 100, UNDEF, 500, 500, "vertical", "center"),
      Seg("z", UNDEF, 50, 500, 500, "horizontal", NONE) }

\* layouts with one such segment at the front, in the middle or at the end
StrayLayouts ==
    UNION { { << z >> \o base, base \o << z >>,
              << z >> \o base \o << z >>,
              SubSeq(base, 1, 1) \o << z >> \o SubSeq(base, 2, Len(base)) } :
            z \in StraySegments,
            base \in {LayoutLeftBottom, LayoutRightTop, LayoutLegacyTop,
                      LayoutMixed} }

TestShells == {<<1280, 720>>, <<1280, 700>>, <<1920, 1080>>}

\* horizontal segments at the bottom, at and around the left offsets
BottomSegments ==
    {Seg("segment_horizontal", x, 620, w, 100, "horizontal", "bottom") :
        x \in {-50, 0, 5, 189, 190, 200, 210, 211, 289, 290, 300, 310, 311,
                640, 1280, 1400},
        w \in {980, 1080}}

\* what getCSSVar reads from --lb-left-width: NaN before a render wrote it
LeftOffsets == {NaN, 0, 200, 300}

\* an Ad element: its id attribute and the text of its AdSystem element
\* ("" for none), and whether VSATParser.parseVSAT returns a banner for it
AdElements ==
    [id : {"", "x", "ad_1"}, adSystem : {"", "LBanner"}, parsed : BOOLEAN]

\* the Ad elements of a VAST document, in document order
TestDocuments == UNION {[1..n -> AdElements] : n \in 0..MaxAds}

\* adEl.getAttribute("id") || AdSystem text || `ad_${index}`
adId(adEl, index) ==
    IF adEl.id # "" THEN adEl.id
    ELSE IF adEl.adSystem # "" THEN adEl.adSystem
    ELSE "ad_" \o ToString(index)

\* banners[key] = parsed: a new property goes to the end of the object, an
\* existing one keeps its place and gets the new value.  ad is the place in
\* the document of the Ad element the value was parsed from.
bannersPut(banners, key, ad) ==
    IF \E i \in 1..Len(banners) : banners[i].key = key
    THEN [i \in 1..Len(banners) |->
            IF banners[i].key = key THEN [key |-> key, ad |-> ad]
            ELSE banners[i]]
    ELSE Append(banners, [key |-> key, ad |-> ad])

\* adElements.forEach over the first n Ad elements; index counts from 0
RECURSIVE parseAds(_, _)
parseAds(doc, n) ==
    IF n = 0 THEN << >>
    ELSE LET banners == parseAds(doc, n - 1)
         IN IF doc[n].parsed
            THEN bannersPut(banners, adId(doc[n], n - 1), n)
            ELSE banners

\* a call is about to be made
InitCalls ==
    /\ \/ \E reg \in TestRegistries, t \in TestTimes :
            call = [NoCall EXCEPT !.fn = "findBannerForTime",
                                  !.reg = reg, !.t = t]
       \/ \E fn \in {"applyVideoOffsets", "applyVideoOffsetsPackaged"},
             segments \in TestLayouts, size \in TestShells :
            call = [NoCall EXCEPT !.fn = fn, !.segments = segments,
                                  !.size = size]
       \/ \E segment \in OddSegments, size \in TestShells :
            call = [NoCall EXCEPT !.fn = "applyVideoOffsets",
                                  !.segments = << segment >>, !.size = size]
       \/ \E segments \in StrayLayouts, size \in TestShells :
            call = [NoCall EXCEPT !.fn = "applyVideoOffsets",
                                  !.segments = segments, !.size = size]
       \/ \E segment \in TestSegments \cup {LayoutLegacyTop[1]},
             size \in TestShells :
            call = [NoCall EXCEPT !.fn = "positionSegment",
                                  !.segments = << segment >>, !.size = size]
       \/ \E doc \in TestDocuments :
            call = [NoCall EXCEPT !.fn = "fetchAndParseVAST", !.doc = doc]
       \/ \E segment \in BottomSegments, leftOffset \in LeftOffsets :
            call = [NoCall EXCEPT !.fn = "positionSegment",
                                  !.segments = << segment >>,
                                  !.size = <<1280, 720>>,
                                  !.leftOffset = leftOffset]
    /\ analyticsEnabled = TRUE
    /\ dom = FullDom
    /\ enableCookieTracking = TRUE
    /\ cookie = NoCookie
    /\ boot = Booted
    /\ parsedBanners = RegistryAB
    /\ showBannersOnPause = FALSE
    /\ shellSize \in ShellSizes
    /\ currentTime = 0
    /\ videoPaused = FALSE
    /\ videoSeeking = FALSE
    /\ currentBannerKey = NULL
    /\ isPaused = FALSE
    /\ isSeeking = FALSE
    /\ pauseBannerActive = FALSE
    /\ adapter = InitAdapter
    /\ timers = << >>

callFrame == <<parsedBanners, showBannersOnPause, shellSize,
               analyticsEnabled, dom, trackingVars, boot, videoVars, ctrlVars,
               adapter, timers>>

FindBannerForTimeCall ==
    /\ call.fn = "findBannerForTime"
    /\ ~call.done
    /\ call' = [call EXCEPT !.done = TRUE,
                            !.key = findBannerForTime(call.reg, call.t)]
    /\ UNCHANGED callFrame

ApplyVideoOffsetsCall ==
    /\ call.fn = "applyVideoOffsets"
    /\ ~call.done
    /\ call' = [call EXCEPT !.done = TRUE,
                            !.offsets = computeOffsets(call.segments,
                                                       call.size)]
    /\ UNCHANGED callFrame

ApplyVideoOffsetsPackagedCall ==
    /\ call.fn = "applyVideoOffsetsPackaged"
    /\ ~call.done
    /\ call' = [call EXCEPT !.done = TRUE,
                            !.offsets = computeOffsetsPackaged(call.segments,
                                                               call.size)]
    /\ UNCHANGED callFrame

\* positionSegment(node, segment): the edge the node is attached to is
\* returned in key
PositionSegmentCall ==
    /\ call.fn = "positionSegment"
    /\ ~call.done
    /\ LET edge == positionSegment(call.segments[1], call.size)
       IN call' = [call EXCEPT
                     !.done = TRUE,
                     !.key = edge,
                     !.style = IF edge = "bottom" /\ call.segments[1].x # UNDEF
                               THEN positionBottomSegment(call.segments[1],
                                                          call.leftOffset)
                               ELSE NoStyle]
    /\ UNCHANGED callFrame

\* fetchAndParseVAST(vastUrl) for a document that was fetched and is
\* well-formed XML: the banners object it resolves to
FetchAndParseVASTCall ==
    /\ call.fn = "fetchAndParseVAST"
    /\ ~call.done
    /\ call' = [call EXCEPT !.done = TRUE,
                            !.banners = parseAds(call.doc, Len(call.doc))]
    /\ UNCHANGED callFrame

NextCalls ==
    \/ FindBannerForTimeCall
    \/ ApplyVideoOffsetsCall
    \/ ApplyVideoOffsetsPackagedCall
    \/ PositionSegmentCall
    \/ FetchAndParseVASTCall

SpecCalls == InitCalls /\ [][NextCalls]_vars

(***************************************************************************)
(* LBannerPlayer.init (build/lbanner-entry.js): one call, from its         *)
(* argument check through the loading of the dependencies and the wait for *)
(* window.initLBanner to the call of initLBanner or the rejection.  The    *)
(* frame of the call is kept in the variable call; initLBanner tells       *)
(* whether main.js has defined window.initLBanner.                         *)
(***************************************************************************)
\* the options objects handed to LBannerPlayer.init, over the properties
\* apiKey, vastUrl, key, url and videoUrl; NONE stands for a property the
\* object does not have
PlayerOptions ==
    { [apiKey |-> a, vastUrl |-> v, key |-> k, url |-> u, videoUrl |-> m] :
        a \in {NONE, "K"}, v \in {NONE, "U"}, k \in {NONE, "X"},
        u \in {NONE, "Y"}, m \in {NONE, "M"} }

\* { key: apiKey, url: vastUrl, ...rest }: rest holds every property of
\* options but apiKey and vastUrl, and is spread last
initLBannerArgs(options) ==
    [key |-> IF options.key # NONE THEN options.key ELSE options.apiKey,
     url |-> IF options.url # NONE THEN options.url ELSE options.vastUrl,
     videoUrl |-> options.videoUrl]

\* an object without any of the properties
NoOptions ==
    [apiKey |-> NONE, vastUrl |-> NONE, key |-> NONE, url |-> NONE,
     videoUrl |-> NONE]

\* the frame before the call: error is the message of the rejection, args
\* the object handed to initLBanner
IdleCall(available) ==
    [fn |-> "LBannerPlayer.init", pc |-> "idle", options |-> NoOptions,
     attempts |-> 0, initLBanner |-> available, error |-> NONE,
     args |-> initLBannerArgs(NoOptions)]

entryFrame == <<parsedBanners, showBannersOnPause, shellSize,
                analyticsEnabled, dom, trackingVars, boot, videoVars,
                ctrlVars, adapter>>

\* the end of the wait: the test of the while loop has failed
endOfWait(c) ==
    IF ~c.initLBanner
    THEN [c EXCEPT !.pc = "rejected", !.error = "initLBanner not available"]
    ELSE [c EXCEPT !.pc = "called", !.args = initLBannerArgs(c.options)]

\* the test of the while loop: poll again or leave the loop
pollOrEnd(c, q) ==
    IF ~c.initLBanner /\ c.attempts < MAX_ATTEMPTS
    THEN [c |-> c, q |-> Schedule(q, "poll", POLL_DELAY)]
    ELSE [c |-> endOfWait(c), q |-> q]

\* LBannerPlayer.init(options) up to its first await
PlayerInit(options) ==
    /\ call.pc = "idle"
    /\ call' = IF options.apiKey = NONE \/ options.vastUrl = NONE
               THEN [call EXCEPT !.pc = "rejected", !.options = options,
                                 !.error = "apiKey and vastUrl are required"]
               ELSE [call EXCEPT !.pc = "loading", !.options = options]
    /\ UNCHANGED <<entryFrame, timers>>

\* Promise.all of the two loaders resolves: the wait begins
DependenciesLoaded ==
    /\ call.pc = "loading"
    /\ LET r == pollOrEnd([call EXCEPT !.pc = "polling"], timers)
       IN call' = r.c /\ timers' = r.q
    /\ UNCHANGED entryFrame

\* a script of a dependency fails to load: Promise.all rejects
DependenciesFail ==
    /\ call.pc = "loading"
    /\ call' = [call EXCEPT !.pc = "rejected", !.error = "script error"]
    /\ UNCHANGED <<entryFrame, timers>>

\* main.js is evaluated: window.initLBanner = initLBanner
BundleReady ==
    /\ ~call.initLBanner
    /\ call' = [call EXCEPT !.initLBanner = TRUE]
    /\ UNCHANGED <<entryFrame, timers>>

\* the 50 ms timer of one poll fires: attempts++ and the loop test
PollFire ==
    /\ Due("poll")
    /\ LET r == pollOrEnd([call EXCEPT !.attempts = @ + 1], Tail(timers))
       IN call' = r.c /\ timers' = r.q
    /\ UNCHANGED entryFrame

InitEntry ==
    /\ \E available \in BOOLEAN : call = IdleCall(available)
    /\ analyticsEnabled = TRUE
    /\ dom = FullDom
    /\ enableCookieTracking = TRUE
    /\ cookie = NoCookie
    /\ boot = [calls |-> 0, pending |-> FALSE, outcome |-> "none",
               analyticsInits |-> 0, timingListeners |-> 0]
    /\ parsedBanners = << >>
    /\ showBannersOnPause = FALSE
    /\ shellSize \in ShellSizes
    /\ currentTime = 0
    /\ videoPaused = TRUE
    /\ videoSeeking = FALSE
    /\ currentBannerKey = NULL
    /\ isPaused = FALSE
    /\ isSeeking = FALSE
    /\ pauseBannerActive = FALSE
    /\ adapter = InitAdapter
    /\ timers = << >>

NextEntry ==
    \/ \E options \in PlayerOptions : PlayerInit(options)
    \/ DependenciesLoaded
    \/ DependenciesFail
    \/ BundleReady
    \/ PollFire
    \/ Tick

\* timers fire when their delay has elapsed
SpecEntry ==
    /\ InitEntry
    /\ [][NextEntry]_vars
    /\ WF_vars(Tick)
    /\ WF_vars(PollFire)

(***************************************************************************)
(* Properties                                                              *)
(***************************************************************************)
\* the keys of the banners that own a child of the host
HostKeys(a) == {a.host[i][1] : i \in 1..Len(a.host)}

OffsetsZero(a) ==
    /\ a.props.left = "0px"
    /\ a.props.right = "0px"
    /\ a.props.top = "0px"
    /\ a.props.bottom = "0px"

HasWindow(b) == b.startOffset # UNDEF /\ b.endOffset # UNDEF

\* the timeupdate listener runs past its suppression test
Unsuppressed == ~isPaused /\ ~isSeeking /\ ~pauseBannerActive

\* C1 (as claimed): a banner with a timing window owns the children of the
\* host exactly when the playback time lies in its window, no earlier
\* registry entry's window contains that time, and the controller is not
\* seeking.  Stated for the default configuration, where no pause-forced
\* display exists.
C1_ShownIffInWindow ==
    ~showBannersOnPause =>
    \A i \in 1..Len(parsedBanners) :
        LET b == parsedBanners[i]
        IN HasWindow(b) =>
             ( HostKeys(adapter) = {b.key}
               <=> /\ b.startOffset <= currentTime
                   /\ currentTime < b.endOffset
                   /\ \A j \in 1..(i - 1) :
                        LET e == parsedBanners[j]
                        IN ~(HasWindow(e) /\ e.startOffset <= currentTime
                                          /\ currentTime < e.endOffset)
                   /\ ~isSeeking )

\* C2: the children of the host all belong to the banner handed to the most
\* recent renderBanner.
C2_OneBannerInHost ==
    \A i \in 1..Len(adapter.host) : adapter.host[i][1] = adapter.lastRendered

\* C2 witness: a banner rendered while the exit animation of an earlier
\* hide is still pending.
C2_Witness ==
    /\ Pending("exit")
    /\ adapter.listening
    /\ Len(adapter.host) > 1

\* C3 (as claimed): between a seeking event and the end of the cooldown the
\* host has no children.
C3_NoBannerWhileSeeking == isSeeking => adapter.host = << >>

\* C4 (as claimed): the exit-animation callback leaves the host alone when
\* a banner was rendered after the hide that scheduled it (the resize
\* listeners are attached exactly from a render to the next teardown).
C4_StaleExitIsNoOp ==
    [][(ExitAnimationFire /\ adapter.listening)
         => adapter'.host = adapter.host]_vars

\* a timeupdate step of the scenario registry that enters the time t with
\* the controller unsuppressed and another key current
ScenarioTick(t) ==
    /\ parsedBanners = RegistryAB
    /\ Unsuppressed
    /\ TimeUpdate(t)

PauseChoice(t) ==
    LET hit == findBannerForTime(parsedBanners, t)
    IN IF hit # NULL THEN {hit} ELSE Keys(parsedBanners)

\* C6: with showBannersOnPause and a non-empty registry, every handled
\* pause leaves a banner rendered in the host: the time-matching one, or
\* else a banner of the registry, whatever currentBannerKey was before.
C6_PauseAlwaysShows ==
    [][(Pause /\ showBannersOnPause /\ Len(parsedBanners) > 0)
         => /\ adapter'.host # << >>
            /\ adapter'.listening
            /\ \E k \in PauseChoice(currentTime) :
                 /\ HostKeys(adapter') = {k}
                 /\ currentBannerKey' = k]_vars

\* C6 witness: a pause handled in the middle of a seek has rendered its
\* banner.
C6_Witness ==
    /\ showBannersOnPause
    /\ isPaused
    /\ pauseBannerActive
    /\ isSeeking
    /\ adapter.host # << >>
    /\ HostKeys(adapter) = {currentBannerKey}

\* C7 (as claimed): a pause at a time outside every window shows the most
\* recently shown banner when there is one.
C7_FallbackIsLastShown ==
    [][(Pause /\ showBannersOnPause
          /\ findBannerForTime(parsedBanners, currentTime) = NULL
          /\ adapter.lastRendered # NULL)
         => HostKeys(adapter') = {adapter.lastRendered}]_vars

\* C8 (as claimed): once playback has resumed and every delay has elapsed
\* (not paused, not seeking, no timer pending) at a time outside every
\* window, no banner is rendered and currentBannerKey is null.
C8_NoLingeringPauseBanner ==
    ( /\ showBannersOnPause
      /\ ~videoPaused /\ ~isPaused /\ ~pauseBannerActive
      /\ ~videoSeeking /\ ~isSeeking
      /\ timers = << >>
      /\ findBannerForTime(parsedBanners, currentTime) = NULL )
    => /\ adapter.host = << >>
       /\ currentBannerKey = NULL

\* C9: without showBannersOnPause a pause or play event changes neither the
\* controller state nor the adapter nor the pending timers.
C9_PausePlayInert ==
    [][((Pause \/ Play) /\ ~showBannersOnPause)
         => UNCHANGED <<currentBannerKey, isPaused, isSeeking,
                        pauseBannerActive, adapter, timers>>]_vars

\* C9 witness: the video is paused over a rendered banner and the
\* controller has not noticed.
C9_Witness ==
    /\ ~showBannersOnPause
    /\ videoPaused
    /\ ~isPaused
    /\ adapter.host # << >>
    /\ currentBannerKey # NULL

C11_ResponseNeverOverwritesNewer ==
    [][\A i \in 1..MaxFetches, key \in Keys(AdPayloads) :
         (FetchResolve(i, key) /\ adapter.listening)
           => /\ adapter'.currentBanner = adapter.currentBanner
              /\ adapter'.host = adapter.host]_vars

\* C12 (as claimed): when a fetch fails while the host is as fetchAndRender
\* left it, the children of the host and state.currentBanner are what they
\* were before the call.
C12_FailedFetchChangesNothing ==
    [][\A i \in 1..MaxFetches :
         (FetchFail(i) /\ adapter.host = << >>
            /\ adapter.currentBanner = adapter.fetches[i].bannerBefore)
           => /\ adapter'.host = adapter.fetches[i].hostBefore
              /\ adapter'.currentBanner = adapter.fetches[i].bannerBefore]_vars

\* C13 (as claimed): whenever the VAST document of a call yields zero
\* banners the call rejects, LBannerAnalytics.init is not called and no
\* listener set is registered.  Stated for the page of the README: every
\* element present, analytics enabled.
C13_NoBannersRejects ==
    [][\A shaka \in ShakaOutcomes :
         (InitLBannerResume(<< >>, shaka) /\ analyticsEnabled /\ dom = FullDom)
           => /\ boot'.outcome = "rejected"
              /\ boot'.analyticsInits = boot.analyticsInits
              /\ boot'.timingListeners = boot.timingListeners]_vars

\* the page has the three elements the render adapter is pointed at
TargetsPresent == dom.shell /\ dom.host /\ dom.videoArea

\* a call of initLBanner ends in this step
InitEnds ==
    \/ \E options \in InitOptions :
         InitLBannerCall(options) /\ (~options.key \/ ~options.url)
    \/ \E banners \in VastResults, shaka \in ShakaOutcomes :
         InitLBannerResume(banners, shaka)

\* C14 (as claimed): a call that lacks key or url, or that ends on a page
\* lacking the player shell, the banner host, the video area or the video
\* element, rejects and registers no listener set.  Stated with analytics
\* enabled.
C14_MissingPartsReject ==
    [][( /\ analyticsEnabled
         /\ \/ \E options \in InitOptions :
                InitLBannerCall(options) /\ (~options.key \/ ~options.url)
            \/ (InitEnds /\ ~(TargetsPresent /\ dom.video)) )
         => /\ boot'.outcome = "rejected"
            /\ boot'.timingListeners = boot.timingListeners]_vars

\* C14 (amended): a call that lacks key or url rejects before it does
\* anything; with the analytics module enabled a call on a page lacking the
\* player shell, the banner host or the video area rejects and registers no
\* listeners; on a page lacking only the video element no listener is
\* registered, and the call resolves unless the VAST document has no banner
\* or initShaka throws.
C14_MissingPartsHandled ==
    [][ /\ \A options \in InitOptions :
            (InitLBannerCall(options) /\ (~options.key \/ ~options.url))
              => /\ boot'.outcome = "rejected"
                 /\ boot'.analyticsInits = boot.analyticsInits
                 /\ boot'.timingListeners = boot.timingListeners
                 /\ UNCHANGED <<parsedBanners, showBannersOnPause>>
        /\ (InitEnds /\ analyticsEnabled /\ ~TargetsPresent)
              => /\ boot'.outcome = "rejected"
                 /\ boot'.timingListeners = boot.timingListeners
        /\ (InitEnds /\ ~dom.video)
              => boot'.timingListeners = boot.timingListeners
        /\ \A banners \in VastResults, shaka \in ShakaOutcomes :
            ( /\ InitLBannerResume(banners, shaka)
              /\ ~dom.video /\ TargetsPresent
              /\ Len(parsedBanners') > 0 /\ shaka # "throws" )
              => boot'.outcome = "resolved" ]_vars

\* C14 witness: LBannerAnalytics.init has thrown for the missing banner host
\* after the banners were merged.
C14_Witness ==
    /\ analyticsEnabled
    /\ ~dom.host
    /\ boot.outcome = "rejected"
    /\ boot.analyticsInits = 1
    /\ boot.timingListeners = 0
    /\ Len(parsedBanners) > 0

\* the window of banner b contains the time t
Covers(b, t) ==
    /\ b.startOffset # UNDEF
    /\ b.endOffset # UNDEF
    /\ b.startOffset <= t
    /\ t < b.endOffset

\* C15: the key findBannerForTime returns belongs to a banner that has both
\* offsets and whose window contains t (start included, end excluded), no
\* earlier banner of the registry has such a window, and null is returned
\* exactly when no window contains t.
C15_FirstWindowWins ==
    (call.fn = "findBannerForTime" /\ call.done)
    => /\ call.key # NULL
            => \E i \in 1..Len(call.reg) :
                 /\ call.reg[i].key = call.key
                 /\ Covers(call.reg[i], call.t)
                 /\ \A j \in 1..(i - 1) : ~Covers(call.reg[j], call.t)
       /\ call.key = NULL
            => \A i \in 1..Len(call.reg) : ~Covers(call.reg[i], call.t)

\* C15 witness: at t = 10 the window [5,10) of the first banner has ended
\* and the window [10,20) of the second has begun.
C15_Witness ==
    /\ call.fn = "findBannerForTime"
    /\ call.done
    /\ call.t = 10
    /\ Len(call.reg) >= 2
    /\ call.reg[1].startOffset = 5 /\ call.reg[1].endOffset = 10
    /\ call.reg[2].startOffset = 10 /\ call.reg[2].endOffset = 20
    /\ call.key = call.reg[2].key

\* applyVideoOffsets of the analytics module has returned for a layout of
\* one absolute segment
OneSegmentCall ==
    /\ call.fn = "applyVideoOffsets"
    /\ call.done
    /\ Len(call.segments) = 1
    /\ call.segments[1].x # UNDEF
    /\ call.segments[1].y # UNDEF
    /\ \A f \in {"x", "y", "width", "height"} :
          ~IsNaN(call.segments[1][f]) /\ call.segments[1][f] >= 0

VerticalSegment(s) ==
    s.type = "vertical" \/ (s.type = NONE /\ s.height > s.width)

HorizontalSegment(s) ==
    s.type = "horizontal" \/ (s.type = NONE /\ s.width > s.height)

AnchoredLeft(s) == s.x = 0 /\ s.position \in {NONE, "left"}

AnchoredRight(s, size) ==
    s.x + s.width = size[1] /\ s.position \in {NONE, "right"}

\* C16 (as claimed): for every width W and shell width, one vertical
\* absolute segment of width W yields left = W, right = 0 when anchored at
\* the left edge and right = W, left = 0 when anchored at the right edge.
C16_MirrorSymmetry ==
    (OneSegmentCall /\ VerticalSegment(call.segments[1]))
    => LET s == call.segments[1]
       IN /\ AnchoredLeft(s)
               => call.offsets.left = s.width /\ call.offsets.right = 0
          /\ AnchoredRight(s, call.size)
               => call.offsets.right = s.width /\ call.offsets.left = 0

\* C16 (amended): the left-anchored segment yields left = W, right = 0 for
\* every W; the mirrored segment yields right = W, left = 0 when W is less
\* than the shell width; a segment as wide as the shell starts at x = 0 in
\* both layouts and is taken for a left segment: left = W, right = 0.
C16_MirrorSymmetryBelowShellWidth ==
    (OneSegmentCall /\ VerticalSegment(call.segments[1]))
    => LET s == call.segments[1]
       IN /\ AnchoredLeft(s)
               => call.offsets.left = s.width /\ call.offsets.right = 0
          /\ (AnchoredRight(s, call.size) /\ s.width < call.size[1])
               => call.offsets.right = s.width /\ call.offsets.left = 0
          /\ (AnchoredRight(s, call.size) /\ s.width = call.size[1])
               => call.offsets.left = s.width /\ call.offsets.right = 0

\* C16 witness: a strip 300 wide ending at the right edge of a shell 1280
\* wide, no position hint.
C16_Witness ==
    /\ OneSegmentCall
    /\ call.segments[1].type = "vertical"
    /\ call.segments[1].position = NONE
    /\ call.segments[1].x = 980
    /\ call.segments[1].width = 300
    /\ call.size[1] = 1280
    /\ call.offsets.right = 300
    /\ call.offsets.left = 0

\* C17: one horizontal absolute segment of height H yields top = y + H,
\* bottom = 0 when it has no bottom hint and y <= shellHeight / 2, and
\* bottom = H, top = 0 when it has the bottom hint or y > shellHeight / 2.
C17_TopUsesBottomEdge ==
    (OneSegmentCall /\ HorizontalSegment(call.segments[1]))
    => LET s == call.segments[1]
           shellHeight == call.size[2]
       IN /\ (s.position # "bottom" /\ 2 * s.y <= shellHeight)
               => /\ call.offsets.top = s.y + s.height
                  /\ call.offsets.bottom = 0
          /\ (s.position = "bottom" \/ 2 * s.y > shellHeight)
               => /\ call.offsets.bottom = s.height
                  /\ call.offsets.top = 0

\* C17 witness: y = 600 in a shell 700 high, no position hint.
C17_Witness ==
    /\ OneSegmentCall
    /\ call.segments[1].type = "horizontal"
    /\ call.segments[1].position = NONE
    /\ call.segments[1].y = 600
    /\ call.segments[1].height = 100
    /\ call.size[2] = 700
    /\ call.offsets.bottom = 100
    /\ call.offsets.top = 0

\* C18 (as claimed): applyVideoOffsets, in the analytics module and in its
\* packaged copy, yields left = 300, right = 0, top = 80, bottom = 0 for the
\* legacy top strip of height 80 combined with the vertical-typed absolute
\* segment 300 wide and 100 high.
C18_MixedLayout ==
    ( /\ call.fn \in {"applyVideoOffsets", "applyVideoOffsetsPackaged"}
      /\ call.done
      /\ call.segments = LayoutMixed )
    => call.offsets = [left |-> 300, right |-> 0, top |-> 80, bottom |-> 0]

\* C19: a resize or fullscreen-change event, and the callback it arms, leave
\* state.currentBanner, the children of the host and the controller's
\* currentBannerKey as they are.
C19_ResizeKeepsBanner ==
    [][((\E size \in ShellSizes \cup {FullscreenShell} : Resize(size))
          \/ ResizeFire)
         => /\ adapter'.currentBanner = adapter.currentBanner
            /\ adapter'.host = adapter.host
            /\ adapter'.lastRendered = adapter.lastRendered
            /\ currentBannerKey' = currentBannerKey]_vars

\* C19 witness: B was stored with setBanner while A is rendered, fullscreen
\* was entered, and the callback has written B's offsets around A's nodes.
C19_Witness ==
    /\ shellSize = FullscreenShell
    /\ adapter.listening
    /\ adapter.currentBanner = "B"
    /\ adapter.lastRendered = "A"
    /\ HostKeys(adapter) = {"A"}
    /\ adapter.props.right = "250px"
    /\ adapter.props.top = "90px"
    /\ ~Pending("resize")

\* C20: with ENABLE_ANALYTICS false at load time the host never has a child
\* and no offset property is ever written, whatever the video does and
\* whatever the page calls; nothing of the adapter is ever armed (no close
\* button, no resize listener, no fetch, no exit or resize timer).
C20_DisabledNeverDisplays ==
    ~analyticsEnabled
    => /\ adapter.host = << >>
       /\ adapter.props = UnsetProps
       /\ adapter.lastRendered = NULL
       /\ ~adapter.closeButton
       /\ ~adapter.listening
       /\ adapter.fetches = << >>
       /\ ~Pending("exit")
       /\ ~Pending("resize")

\* C20 witness: the controller has asked for banner A at t = 7 and counts it
\* as shown; the stub has rendered nothing.
C20_Witness ==
    /\ ~analyticsEnabled
    /\ currentTime = 7
    /\ currentBannerKey = "A"
    /\ adapter.host = << >>

\* C24 (as claimed): the hide of the seeking listener and the replacement of
\* one banner by another empty the host of the old banner's nodes inside the
\* handler step, and an exit-animation timer is armed only by a click on the
\* close button.
C24_OnlyCloseIsAnimated ==
    [][/\ ((\E t \in Times : Seeking(t)) => adapter'.host = << >>)
       /\ (adapter'.lastRendered # adapter.lastRendered
             => HostKeys(adapter') = {adapter'.lastRendered})
       /\ (~Pending("exit") /\ Pending("exit")' => CloseClick)]_vars

\* C25 (as claimed): once a teardown has reset the four offset properties to
\* 0px, no step other than a render changes them; in particular the resize
\* callback that fires after the teardown writes nothing.
C25_OffsetsStayZeroAfterTeardown ==
    [][(/\ ~adapter.listening
        /\ adapter.lastRendered # NULL
        /\ OffsetsZero(adapter)
        /\ ~adapter'.listening)
         => OffsetsZero(adapter')]_vars

\* C26: the cooldown callback never runs while a seek is in progress (a
\* seeking event leaves no cooldown pending, so a pending cooldown always
\* belongs to the latest seek, which has completed), and when it runs with
\* isPaused true it renders nothing and leaves currentBannerKey alone.
C26_CooldownYieldsToNewerSeek ==
    /\ [](Pending("seekCooldown") => ~videoSeeking /\ isSeeking)
    /\ [][/\ ((\E t \in Times : Seeking(t)) => ~Pending("seekCooldown")')
          /\ (SeekCooldownFire /\ isPaused
                => /\ adapter' = adapter
                   /\ currentBannerKey' = currentBannerKey)]_vars

\* C26 witness: the cooldown of a seek made during a pause has fired: the
\* key cleared by the seeking listener was not set again.
C26_Witness ==
    /\ isPaused
    /\ ~isSeeking
    /\ currentBannerKey = NULL
    /\ ~Pending("seekCooldown")

\* C27: a seeked event leads to isSeeking false unless another seeking event
\* arrives first; and the step that clears isSeeking, taken while playback
\* is not paused, sets currentBannerKey to the banner whose window contains
\* the playback time (null when there is none) and renders that banner.
C27_SeekSettles ==
    /\ (Pending("seekCooldown") ~> (~isSeeking \/ videoSeeking))
    /\ [][(isSeeking /\ ~isSeeking' /\ ~isPaused)
            => LET res == findBannerForTime(parsedBanners, currentTime)
               IN /\ currentBannerKey' = res
                  /\ res # NULL => /\ HostKeys(adapter') = {res}
                                   /\ adapter'.lastRendered = res]_vars

\* C27 witness: in the default configuration the cooldown of a seek to t = 7
\* has fired and rendered A, while the exit timer of the hide made by the
\* seeking listener is still pending.
C27_Witness ==
    /\ ~showBannersOnPause
    /\ ~isSeeking
    /\ ~videoSeeking
    /\ currentTime = 7
    /\ currentBannerKey = "A"
    /\ HostKeys(adapter) = {"A"}
    /\ adapter.closeButton
    /\ Pending("exit")

\* C28: a timeupdate handled while isPaused, isSeeking or pauseBannerActive
\* is true changes neither currentBannerKey nor anything of the adapter (no
\* setBanner, no render, no hide, no timer).
C28_SuppressedTickIsNoOp ==
    [][((\E t \in Times : TimeUpdate(t))
          /\ (isPaused \/ isSeeking \/ pauseBannerActive))
         => /\ currentBannerKey' = currentBannerKey
            /\ adapter' = adapter
            /\ timers' = timers
            /\ UNCHANGED <<isPaused, isSeeking, pauseBannerActive>>]_vars

\* C28 witness: a seek has landed inside a banner's window and cleared the
\* key; the ticks delivered until the cooldown fires find a banner to show
\* and are suppressed.
C28_Witness ==
    /\ isSeeking
    /\ ~isPaused
    /\ ~videoSeeking
    /\ currentBannerKey = NULL
    /\ findBannerForTime(parsedBanners, currentTime) # NULL
    /\ adapter.lastRendered = NULL

\* adapter state a has the nodes, the offsets and the close button that
\* the configuration of banner key prescribes
RenderedAsLaidOut(a, key) ==
    LET b == BannerOf(parsedBanners, key)
        ids == {b.segments[i].id : i \in 1..Len(b.segments)}
    IN /\ a.host = segmentNodes(key, b.elements, ids)
       /\ a.props = applyVideoOffsets(UnsetProps, b.segments, shellSize)
       /\ a.closeButton = b.showCloseButton
       /\ a.lastRendered = key
       /\ a.listening

\* C21: with enableCookieTracking false no step (render, button click, poll
\* vote or any other) changes the lbanner_elements cookie, and a render
\* leaves the nodes, the offsets and the close button that the banner's
\* configuration prescribes, whatever the setting of enableCookieTracking.
C21_NoCookieWhenTrackingOff ==
    [][/\ (~enableCookieTracking => cookie' = cookie)
       /\ (TrackedShow /\ adapter.currentBanner # NULL
             => RenderedAsLaidOut(adapter', adapter.currentBanner))]_vars

\* C21 witness: tracking is off, banner A is rendered with its button in the
\* host, and the cookie of an earlier visit still has its old-format
\* entries, which any write of the store would have dropped.
C21_Witness ==
    /\ ~enableCookieTracking
    /\ adapter.listening
    /\ adapter.lastRendered = "A"
    /\ \E i \in 1..Len(adapter.host) :
         NodeType(parsedBanners, adapter.host[i]) = "button"
    /\ cookie.legacy
    /\ cookie.writes = 0

\* C22: a render leaves the host with one child for each content element
\* whose segmentId names a segment of the layout (elements with an unknown
\* segmentId are passed over) and runs to its end: the close button and the
\* resize listeners are in place.
C22_DanglingElementSkipped ==
    [][TrackedShow /\ adapter.currentBanner # NULL
         => LET b == BannerOf(parsedBanners, adapter.currentBanner)
                ids == {b.segments[i].id : i \in 1..Len(b.segments)}
            IN /\ Len(adapter'.host) =
                    Cardinality({i \in 1..Len(b.elements) :
                                    b.elements[i].segmentId \in ids})
               /\ \A i \in 1..Len(b.elements) :
                    b.elements[i].segmentId \in ids
                    <=> \E n \in 1..Len(adapter'.host) :
                          adapter'.host[n] = <<b.key, b.elements[i].id>>
               /\ adapter'.listening
               /\ adapter'.lastRendered = b.key
               /\ adapter'.closeButton = b.showCloseButton]_vars

\* C22 witness: banner D, whose second element names the absent segment
\* "x", is rendered with two children.
C22_Witness ==
    /\ adapter.listening
    /\ adapter.lastRendered = "D"
    /\ Len(BannerOf(parsedBanners, "D").elements) = 3
    /\ adapter.host = << <<"D", "e1">>, <<"D", "e3">> >>

\* C29: a timeupdate whose time selects the key that currentBannerKey
\* already holds (or no banner while currentBannerKey is null) calls
\* neither the render nor the hide of the adapter and leaves the state of
\* the controller as it is: the adapter, the timer queue, currentBannerKey
\* and the three flags are unchanged.
C29_TickIdempotent ==
    [][\A t \in Times :
         (TimeUpdate(t)
            /\ findBannerForTime(parsedBanners, t) = currentBannerKey)
         => /\ timeupdate(World, t) = [key |-> currentBannerKey, w |-> World]
            /\ adapter' = adapter
            /\ timers' = timers
            /\ UNCHANGED ctrlVars]_vars

\* C29 witness: banner A was closed by the user and its nodes are gone; the
\* ticks inside A's window select the key the controller already holds and
\* have not rendered A again.
C29_Witness ==
    /\ Unsuppressed
    /\ ~videoPaused
    /\ currentBannerKey = "A"
    /\ findBannerForTime(parsedBanners, currentTime) = "A"
    /\ adapter.host = << >>
    /\ ~adapter.listening
    /\ ~Pending("exit")

\* C23 (as claimed): once the dependencies are loaded the wait ends (the
\* call is made or the promise rejects), after at most 100 polls; the
\* rejection happens only when initLBanner is still undefined, and the call
\* hands initLBanner key = apiKey, url = vastUrl and every other option as
\* it was given.
C23_PollsThenCallsOrRejects ==
    /\ (call.pc = "polling" ~> call.pc \in {"called", "rejected"})
    /\ [](/\ call.attempts <= MAX_ATTEMPTS
          /\ call.pc = "polling" => call.attempts < MAX_ATTEMPTS
          /\ call.pc = "called"
               => /\ call.initLBanner
                  /\ call.args.key = call.options.apiKey
                  /\ call.args.url = call.options.vastUrl
                  /\ call.args.videoUrl = call.options.videoUrl)
    /\ [][(call.pc = "polling" /\ call'.pc = "rejected")
            => /\ ~call.initLBanner
               /\ call'.attempts = MAX_ATTEMPTS]_vars

\* the call of positionSegment on an absolute segment has returned
PositionedAbsolute ==
    /\ call.fn = "positionSegment"
    /\ call.done
    /\ call.segments[1].x # UNDEF
    /\ call.segments[1].y # UNDEF

\* C30 (as claimed): for every absolute segment and shell size
\* positionSegment and applyVideoOffsets agree on vertical and horizontal,
\* on the left and right edge and on bottom against top, and the node is
\* attached to the edge whose offset the segment raises.
C30_PlacementMatchesOffsets ==
    PositionedAbsolute =>
      LET s == call.segments[1]
          offsets == segmentOffsets(ZeroOffsets, s, call.size)
          leftEdge == isLeftEdge(s)
      IN /\ positionSegmentIsVertical(s) = VerticalSegment(s)
         /\ positionSegmentIsHorizontal(s) = HorizontalSegment(s)
         /\ positionSegmentIsLeftEdge(s) = leftEdge
         /\ positionSegmentIsBottom(s)
              = isBottomSegment(s, HorizontalSegment(s), call.size[2])
         /\ offsets.left > 0 => call.key = "left"
         /\ offsets.right > 0 => call.key = "right"
         /\ offsets.bottom > 0 => call.key = "bottom"
         /\ call.key = "left" => offsets.left = s.width
         /\ call.key = "right" => offsets.right = s.width
         /\ call.key = "bottom" => offsets.bottom = s.height

\* a segment without declared type that is as wide as it is high
SquareSegment(s) == s.type = NONE /\ s.width = s.height /\ s.width > 0

RaisesSide(offsets) == offsets.left > 0 \/ offsets.right > 0

RaisesTopOrBottom(offsets) == offsets.top > 0 \/ offsets.bottom > 0

Stray(s) == ~(s.x # UNDEF /\ s.y # UNDEF) /\ s.position \notin POSITIONS

\* C33: applyVideoOffsets returns, and its four offsets are those of the
\* layout without the segments that have neither both x and y nor a
\* position among left, right, top, bottom.
C33_StraySegmentsIgnored ==
    (call.fn = "applyVideoOffsets" /\ call.done)
    => call.offsets
         = computeOffsets(SelectSeq(call.segments, LAMBDA s : ~Stray(s)),
                          call.size)

\* C33 witness: the left-bottom layout with a 500 x 500 segment that has
\* only an x coordinate and the position "center" in its middle gives the
\* offsets of the left-bottom layout alone.
C33_Witness ==
    /\ call.fn = "applyVideoOffsets"
    /\ call.done
    /\ Len(call.segments) = 3
    /\ call.segments[2] = Seg("z", 100, UNDEF, 500, 500, "vertical", "center")
    /\ call.offsets = [left |-> 300, right |-> 0, top |-> 0, bottom |-> 100]

\* v is a number and not below zero
NonNegative(v) == ~IsNaN(v) /\ v >= 0

\* C34 (as claimed): each of the four offsets applyVideoOffsets computes is
\* a non-negative number, for layouts with zero, negative or unparsable
\* width, height, x or y as well.
C34_OffsetsNonNegative ==
    (call.fn = "applyVideoOffsets" /\ call.done)
    => \A side \in POSITIONS : NonNegative(call.offsets[side])

\* positionSegment has returned for a horizontal bottom segment that is not
\* on the left edge
RightBottomCall ==
    /\ call.fn = "positionSegment"
    /\ call.done
    /\ call.key = "bottom"
    /\ call.segments[1].x # UNDEF
    /\ ~IsNaN(call.segments[1].x)
    /\ ~positionSegmentIsLeftEdge(call.segments[1])

\* the node is anchored to the left offset
AnchoredToLeftOffset ==
    /\ call.style.left = "var(--lb-left-width)"
    /\ call.style.width
         = "calc(100% - var(--lb-left-width) - var(--lb-right-width))"

\* the node is anchored at the percentage x / 1280 clamped to 0..100
AnchoredAtPercent ==
    LET x == call.segments[1].x
    IN /\ call.style.left = "xPercent%"
       /\ call.style.width = "calc(100% - xPercent% - var(--lb-right-width))"
       /\ call.style.percent >= 0
       /\ call.style.percent <= 100 * referenceWidth
       /\ (x >= 0 /\ x <= referenceWidth) => call.style.percent = x * 100
       /\ x < 0 => call.style.percent = 0
       /\ x > referenceWidth => call.style.percent = 100 * referenceWidth

\* C31 (as claimed): a horizontal bottom segment off the left edge is
\* anchored to the left offset exactly when its x is within 10 px of the
\* left offset, and at the clamped percentage x / 1280 otherwise.
C31_AnchoredWithinTenPx ==
    RightBottomCall
    => LET x == call.segments[1].x
           within == /\ ~IsNaN(call.leftOffset)
                     /\ x - call.leftOffset <= LEFT_TOLERANCE
                     /\ call.leftOffset - x <= LEFT_TOLERANCE
       IN IF within THEN AnchoredToLeftOffset ELSE AnchoredAtPercent

\* C31 (amended): a horizontal bottom segment off the left edge is anchored
\* to the left offset exactly when the left offset is a positive number and
\* x is at least the left offset minus 10 px, however far beyond it; in
\* every other case it is anchored at the clamped percentage x / 1280.
C31_AnchoredAtOrAfterLeftOffset ==
    RightBottomCall
    => LET x == call.segments[1].x
           after == /\ ~IsNaN(call.leftOffset)
                    /\ call.leftOffset > 0
                    /\ x >= call.leftOffset - LEFT_TOLERANCE
       IN IF after THEN AnchoredToLeftOffset ELSE AnchoredAtPercent

\* C31 witness: x = 640 is 340 px beyond the left offset 300 and the node
\* is anchored to the left offset all the same.
C31_Witness ==
    /\ RightBottomCall
    /\ call.segments[1].x = 640
    /\ call.leftOffset = 300
    /\ AnchoredToLeftOffset

\* C35 (as claimed): no resize callback raises an error; one that fires
\* after destroy or setBanner(null) cleared state.currentBanner completes
\* without throwing.
C35_ResizeCallbackCompletes ==
    [][ResizeFire => ~resizeCallbackThrows(World)]_vars

\* the places in the document of the Ad elements that parsed
ParsedAds == {i \in 1..Len(call.doc) : call.doc[i].parsed}

\* C36 (as claimed): fetchAndParseVAST returns as many banners as Ad
\* elements parsed, and the banner of every parsed Ad element is in the
\* result, none overwritten by another of the document.
C36_EveryParsedAdHasItsEntry ==
    (call.fn = "fetchAndParseVAST" /\ call.done)
    => /\ Len(call.banners) = Cardinality(ParsedAds)
       /\ \A i \in ParsedAds :
            \E j \in 1..Len(call.banners) : call.banners[j].ad = i

\* C37: with cookie tracking enabled, a banner id whose state is clicked
\* keeps the state clicked and its interactedAt timestamp through every
\* later recordBannerShown and markBannerInteracted.
C37_InteractionMonotonic ==
    [][\A id \in CookieIds :
         (enableCookieTracking /\ cookie.entries[id] = "clicked")
         => /\ cookie'.entries[id] = "clicked"
            /\ cookie'.interactedAt[id] = cookie.interactedAt[id]]_vars

\* C37 witness: banner A was clicked in this visit and a later call wrote
\* its entry again, leaving interactedAt at the time of the click.
C37_Witness ==
    /\ enableCookieTracking
    /\ cookie.entries["A"] = "clicked"
    /\ cookie.interactedAt["A"] > 0
    /\ cookie.lastShown["A"] > cookie.interactedAt["A"]

\* the controller holds a banner's key and the adapter's last operation
\* was a hide: the banner was closed with the close button
ClosedByUser == currentBannerKey # NULL /\ ~adapter.listening

\* C38 (as claimed): after the close button hid a banner, no tick inside
\* the same window renders it again; the next render comes with a change of
\* the time-selected key, or from the seek cooldown or the pause listener.
C38_StaysClosedUntilKeySeekOrPause ==
    /\ [][\A t \in Times :
            (TimeUpdate(t) /\ ClosedByUser
               /\ findBannerForTime(parsedBanners, t) = currentBannerKey)
            => /\ ~adapter'.listening
               /\ adapter'.host = adapter.host]_vars
    /\ [][(ClosedByUser /\ adapter'.listening)
            => \/ currentBannerKey' # currentBannerKey
               \/ SeekCooldownFire
               \/ Pause]_vars


\* C38 (amended): after the close button hid a banner, no tick inside the
\* same window renders it again; the next render comes with a change of the
\* time-selected key, or from the seek cooldown, the pause listener or the
\* resume callback that runs 50 ms after play.
C38_StaysClosedUntilKeySeekPauseOrPlay ==
    /\ [][\A t \in Times :
            (TimeUpdate(t) /\ ClosedByUser
               /\ findBannerForTime(parsedBanners, t) = currentBannerKey)
            => /\ ~adapter'.listening
               /\ adapter'.host = adapter.host]_vars
    /\ [][(ClosedByUser /\ adapter'.listening)
            => \/ currentBannerKey' # currentBannerKey
               \/ SeekCooldownFire
               \/ Pause
               \/ PlayResumeFire]_vars

\* C38 witness: banner A was closed inside its window while the video
\* plays; its exit animation is still running and no tick has shown it anew.
C38_Witness ==
    /\ ClosedByUser
    /\ Unsuppressed
    /\ ~videoPaused
    /\ currentBannerKey = "A"
    /\ findBannerForTime(parsedBanners, currentTime) = "A"
    /\ Pending("exit")
    /\ adapter.host # << >>
    /\ adapter.lastRendered = "A"


\* C39: at most one close button is attached to the player shell, it is the
\* one state.closeButton refers to, and none is attached when the last
\* operation of the adapter was a teardown.
C39_AtMostOneCloseButton ==
    /\ adapter.shellButtons <= 1
    /\ adapter.closeButton <=> adapter.shellButtons = 1
    /\ ~adapter.listening => adapter.shellButtons = 0

\* C39 witness: a banner was closed with its button, which removed the
\* button, and while the exit animation still runs a banner is rendered
\* again: one button is on the shell.
C39_Witness ==
    /\ Pending("exit")
    /\ adapter.listening
    /\ adapter.closeButton
    /\ adapter.shellButtons = 1
    /\ adapter.host # << >>

\* C40 (as claimed): a teardown that follows a render leaves
\* --lb-shell-width-adjust at 0px together with the four offset properties.
C40_TeardownRestoresShellWidth ==
    [][(adapter.listening /\ ~adapter'.listening)
         => /\ OffsetsZero(adapter')
            /\ adapter'.props.adjust = "0px"]_vars

====
